---- MODULE Spec2Model ----
(***************************************************************************)
(* jlif: the line-buffering classifier (src/src/buffer.rs, LineBuffer).    *)
(*                                                                         *)
(* A line is a sequence of one-character strings.  The JSON parser the     *)
(* classifier calls (serde_json::from_str) is modelled as a recursive      *)
(* descent recogniser of RFC 8259 over these characters; the parsed value  *)
(* is represented by its text with the insignificant whitespace removed.   *)
(* add_line and drain are modelled loop iteration by loop iteration, with  *)
(* pc as the position inside the running call.  The driving loop           *)
(* (src/src/processor.rs, StreamProcessor::process) and the output filters *)
(* (src/src/filter.rs) are modelled on top, with ppc as the position       *)
(* inside process.                                                         *)
(***************************************************************************)
EXTENDS Integers, Sequences, FiniteSets, TLC

\* ------------------------------------------------------------------ bounds
MaxCapacity == 4     \* max_lines is drawn from 0..MaxCapacity
MaxCalls    == 4     \* calls (add_line or drain) per run
MaxChunks   == 3     \* chunks per generated line (SpecLine)
MaxReads    == 2     \* lines read by process before the end of input (SpecProcess)

\* ------------------------------------------------------------- characters
Digits == {"0", "1", "2", "3", "4", "5", "6", "7", "8", "9"}

HexDigits == Digits \cup {"a", "b", "c", "d", "e", "f", "A", "B", "C", "D", "E", "F"}

IsDigit(c) == c \in Digits

\* whitespace skipped by the JSON parser (RFC 8259: space, tab, LF, CR)
IsJsonWs(c) == c \in {" ", "\t", "\n", "\r"}

\* whitespace removed by str::trim (Unicode White_Space; "\f" stands for the
\* members that are not JSON whitespace)
IsTrimWs(c) == c \in {" ", "\t", "\n", "\r", "\f"}

\* -------------------------------------------------------------- JSON parser
\* serde_json::from_str as a pushdown recogniser of the RFC 8259 grammar: s is
\* the text, i the position of the next character, m what is expected there,
\* stk the open arrays and objects (innermost first).

StartsWithAt(s, i, lit) ==
    /\ i + Len(lit) - 1 <= Len(s)
    /\ \A k \in 1..Len(lit) : s[i + k - 1] = lit[k]

IsEscape(s, i) ==
    /\ i + 1 <= Len(s)
    /\ s[i + 1] \in {"\"", "\\", "/", "b", "f", "n", "r", "t"}

IsUnicodeEscape(s, i) ==
    /\ i + 5 <= Len(s)
    /\ s[i + 1] = "u"
    /\ \A k \in 2..5 : s[i + k] \in HexDigits

RECURSIVE Recognize(_, _, _, _)
Recognize(s, i, m, stk) ==
    IF m = "after" THEN
        \* a value is complete: end of text, or what may follow it
        IF i > Len(s) THEN stk = <<>>
        ELSE IF IsJsonWs(s[i]) THEN Recognize(s, i + 1, m, stk)
        ELSE IF stk = <<>> THEN FALSE
        ELSE IF s[i] = "," THEN
            Recognize(s, i + 1, IF Head(stk) = "[" THEN "value" ELSE "key", stk)
        ELSE IF s[i] = "]" /\ Head(stk) = "[" THEN Recognize(s, i + 1, m, Tail(stk))
        ELSE IF s[i] = "}" /\ Head(stk) = "{" THEN Recognize(s, i + 1, m, Tail(stk))
        ELSE FALSE
    ELSE IF m \in {"zero", "int", "frac", "expdigits"} THEN
        \* inside a number, at a place where it may end
        IF i <= Len(s) /\ IsDigit(s[i]) /\ m # "zero" THEN Recognize(s, i + 1, m, stk)
        ELSE IF i <= Len(s) /\ s[i] = "." /\ m \in {"zero", "int"}
             THEN Recognize(s, i + 1, "dot", stk)
        ELSE IF i <= Len(s) /\ s[i] \in {"e", "E"} /\ m # "expdigits"
             THEN Recognize(s, i + 1, "exp", stk)
        ELSE Recognize(s, i, "after", stk)
    ELSE IF i > Len(s) THEN FALSE
    ELSE IF m \in {"string", "keystring"} THEN
        IF s[i] = "\"" THEN
            Recognize(s, i + 1, IF m = "string" THEN "after" ELSE "colon", stk)
        ELSE IF s[i] \in {"\n", "\t", "\r", "\f"} THEN FALSE
        ELSE IF s[i] = "\\" THEN
            IF IsEscape(s, i) THEN Recognize(s, i + 2, m, stk)
            ELSE IF IsUnicodeEscape(s, i) THEN Recognize(s, i + 6, m, stk)
            ELSE FALSE
        ELSE Recognize(s, i + 1, m, stk)
    ELSE IF m = "minus" THEN
        IF s[i] = "0" THEN Recognize(s, i + 1, "zero", stk)
        ELSE IF IsDigit(s[i]) THEN Recognize(s, i + 1, "int", stk)
        ELSE FALSE
    ELSE IF m = "dot" THEN
        IsDigit(s[i]) /\ Recognize(s, i + 1, "frac", stk)
    ELSE IF m = "exp" THEN
        IF s[i] \in {"+", "-"} THEN Recognize(s, i + 1, "expsign", stk)
        ELSE IsDigit(s[i]) /\ Recognize(s, i + 1, "expdigits", stk)
    ELSE IF m = "expsign" THEN
        IsDigit(s[i]) /\ Recognize(s, i + 1, "expdigits", stk)
    ELSE IF IsJsonWs(s[i]) THEN Recognize(s, i + 1, m, stk)
    ELSE IF m = "colon" THEN
        s[i] = ":" /\ Recognize(s, i + 1, "value", stk)
    ELSE IF m = "key" THEN
        s[i] = "\"" /\ Recognize(s, i + 1, "keystring", stk)
    ELSE IF m = "member0" /\ s[i] = "}" THEN Recognize(s, i + 1, "after", Tail(stk))
    ELSE IF m = "member0" THEN Recognize(s, i, "key", stk)
    ELSE IF m = "element0" /\ s[i] = "]" THEN Recognize(s, i + 1, "after", Tail(stk))
    ELSE \* m is "value" or "element0": a value starts here
        IF s[i] = "{" THEN Recognize(s, i + 1, "member0", <<"{">> \o stk)
        ELSE IF s[i] = "[" THEN Recognize(s, i + 1, "element0", <<"[">> \o stk)
        ELSE IF s[i] = "\"" THEN Recognize(s, i + 1, "string", stk)
        ELSE IF s[i] = "-" THEN Recognize(s, i + 1, "minus", stk)
        ELSE IF s[i] = "0" THEN Recognize(s, i + 1, "zero", stk)
        ELSE IF IsDigit(s[i]) THEN Recognize(s, i + 1, "int", stk)
        ELSE IF StartsWithAt(s, i, <<"t", "r", "u", "e">>)
             THEN Recognize(s, i + 4, "after", stk)
        ELSE IF StartsWithAt(s, i, <<"f", "a", "l", "s", "e">>)
             THEN Recognize(s, i + 5, "after", stk)
        ELSE IF StartsWithAt(s, i, <<"n", "u", "l", "l">>)
             THEN Recognize(s, i + 4, "after", stk)
        ELSE FALSE

\* serde_json::from_str::<Value>(text).is_ok(): one value, then only whitespace
Parses(s) == Recognize(s, 1, "value", <<>>)

\* the text of s without the whitespace outside strings; q: inside a string
RECURSIVE Compact(_, _, _)
Compact(s, i, q) ==
    IF i > Len(s) THEN <<>>
    ELSE IF q /\ s[i] = "\\" /\ i < Len(s)
         THEN <<s[i], s[i + 1]>> \o Compact(s, i + 2, q)
    ELSE IF s[i] = "\"" THEN <<s[i]>> \o Compact(s, i + 1, ~q)
    ELSE IF ~q /\ IsJsonWs(s[i]) THEN Compact(s, i + 1, q)
    ELSE <<s[i]>> \o Compact(s, i + 1, q)

\* the Value of a text that parses
JsonValue(s) == Compact(s, 1, FALSE)

\* ------------------------------------------------------------ lines, records
\* segment.join("\n")
RECURSIVE Join(_)
Join(ls) ==
    IF Len(ls) = 0 THEN <<>>
    ELSE IF Len(ls) = 1 THEN ls[1]
    ELSE ls[1] \o <<"\n">> \o Join(Tail(ls))

\* str::trim
RECURSIVE TrimStart(_), TrimEnd(_)
TrimStart(s) ==
    IF Len(s) > 0 /\ IsTrimWs(s[1]) THEN TrimStart(Tail(s)) ELSE s

TrimEnd(s) ==
    IF Len(s) > 0 /\ IsTrimWs(s[Len(s)]) THEN TrimEnd(SubSeq(s, 1, Len(s) - 1))
    ELSE s

Trim(s) == TrimEnd(TrimStart(s))

\* mutant: a sign of either kind counts as the start of a number
JsonStart_Sign(trimmed) ==
    IF Len(trimmed) = 0 THEN FALSE
    ELSE \/ trimmed[1] \in {"\"", "{", "["}
         \/ StartsWithAt(trimmed, 1, <<"t", "r", "u", "e">>)
         \/ StartsWithAt(trimmed, 1, <<"f", "a", "l", "s", "e">>)
         \/ StartsWithAt(trimmed, 1, <<"n", "u", "l", "l">>)
         \/ IsDigit(trimmed[1]) \/ trimmed[1] \in {"-", "+"}

\* the match on the trimmed line
JsonStart(trimmed) ==
    IF Len(trimmed) = 0 THEN FALSE
    ELSE \/ trimmed[1] \in {"\"", "{", "["}
         \/ StartsWithAt(trimmed, 1, <<"t", "r", "u", "e">>)
         \/ StartsWithAt(trimmed, 1, <<"f", "a", "l", "s", "e">>)
         \/ StartsWithAt(trimmed, 1, <<"n", "u", "l", "l">>)
         \/ IsDigit(trimmed[1]) \/ trimmed[1] = "-"

\* mutant: the line is matched without trimming
could_be_json_start_NoTrim(line) == JsonStart(line)

could_be_json_start(line) == JsonStart(Trim(line))

\* BufferResult
Json(v) == [kind |-> "Json", value |-> v, lines |-> <<>>]

Text(l) == [kind |-> "Text", value |-> l, lines |-> <<>>]

Incomplete(ls) == [kind |-> "Incomplete", value |-> <<>>, lines |-> ls]

\* ---------------------------------------------------------------- inputs
\* lines submitted in Spec: plain text, the empty line, the three lines of a
\* multi-line object, a one-line value
LText  == <<"p", "l", "a", "i", "n", " ", "t", "e", "x", "t">>
LEmpty == <<>>
LOpen  == <<"{">>
LKey   == <<"\"", "a", "\"", ":", "1">>
LClose == <<"}">>
LNum   == <<"1">>

Lines == {LText, LEmpty, LOpen, LKey, LClose, LNum}

\* lines submitted in SpecScenario: a brace that never closes, a string
\* followed by garbage, plain text, a one-line object, a line of whitespace
\* only, the empty line
LBad   == <<"{", "b", "a", "d">>
LX     == <<"\"", "x", "\"", ":", "1", "\"">>
LMore  == <<"m", "o", "r", "e">>
LY     == <<"{", "\"", "y", "\"", ":", "2", "}">>
LBlank == <<" ", "\t">>

ScenarioLines == {LBad, LX, LMore, LY, LBlank, LEmpty}

\* lines submitted in SpecLine: every concatenation of at most MaxChunks chunks
Chunks ==
    { <<"{">>, <<"}">>, <<"[">>, <<"]">>, <<"\"">>, <<":">>, <<",">>,
      <<"1">>, <<"-">>, <<" ">>, <<"x">>, <<"t", "r", "u", "e">> }

RECURSIVE LinesOfChunks(_)
LinesOfChunks(n) ==
    IF n = 0 THEN {<<>>}
    ELSE LET P == LinesOfChunks(n - 1)
         IN  P \cup {p \o c : p \in P, c \in Chunks}

GenLines == LinesOfChunks(MaxChunks)

\* lines submitted in SpecStart: leading whitespace, a first token, a rest
Leads == {<<>>, <<" ">>, <<"\t", " ">>}

Heads ==
    { <<>>, <<"\"">>, <<"{">>, <<"[">>, <<"-">>, <<"+">>, <<".">>, <<"x">>,
      <<"}">>, <<"]">>, <<":">>, <<",">>,
      <<"0">>, <<"5">>, <<"9">>,
      <<"t", "r", "u", "e">>, <<"f", "a", "l", "s", "e">>, <<"n", "u", "l", "l">>,
      <<"t", "r", "u">>, <<"f", "a", "l", "s">>, <<"n", "u", "l">>,
      <<"T", "r", "u", "e">>,
      <<"N", "a", "N">>, <<"I", "n", "f", "i", "n", "i", "t", "y">> }

Rests == {<<>>, <<" ">>, <<"1">>, <<"e">>, <<"}">>}

StartLines == {l \o h \o r : l \in Leads, h \in Heads, r \in Rests}

\* ------------------------------------------------------------------ state
VARIABLES
    max_lines,   \* LineBuffer.max_lines
    buffer,      \* LineBuffer.buffer
    pc,          \* "idle", or the call whose loop is running, or "panicked"
    state,       \* BufferState of the running add_line
    results,     \* the results vector of the running (or last) call
    parses,      \* serde_json::from_str calls made by the running (or last) call
    calls,       \* history: one entry per call, completed when it returns
    log,         \* history: every Json/Text record pushed, with the lines it took
    iterations,  \* loop iterations run by the running (or last) call
    filter,      \* the arguments OutputFilter::from_args was called with
    input,       \* history: the raw lines read_line has returned
    writer,      \* the records written to the output, in order
    ppc          \* position inside StreamProcessor::process, "off" without one

procvars == <<filter, input, writer, ppc>>

vars == <<max_lines, buffer, pc, state, results, parses, calls, log,
          iterations, filter, input, writer, ppc>>

\* OutputFilter::from_args(pattern, case_sensitive, json_only, invert_match);
\* pattern is <<>> for None and <<p>> for Some(p)
FilterArgs(pattern, case_sensitive, json_only, invert_match) ==
    [pattern |-> pattern, case_sensitive |-> case_sensitive,
     json_only |-> json_only, invert_match |-> invert_match]

\* LineBuffer::new
Init ==
    /\ max_lines \in 0..MaxCapacity
    /\ buffer = <<>>
    /\ pc = "idle"
    /\ state = "Accumulating"
    /\ results = <<>>
    /\ parses = 0
    /\ calls = <<>>
    /\ log = <<>>
    /\ iterations = 0
    /\ filter = FilterArgs(<<>>, FALSE, FALSE, FALSE)
    /\ input = <<>>
    /\ writer = <<>>
    /\ ppc = "off"

\* ------------------------------------------------------- parsing attempts
\* mutant: only the newest buffered line is parsed
try_parse_buffer_segments_LastLine(buf) == Len(buf) > 0 /\ Parses(buf[Len(buf)])

\* Some(..) of try_parse_buffer_segments: the whole buffer parses
try_parse_buffer_segments(buf) == Parses(Join(buf))

\* end_idx of try_parse_forward_segments, 0 for None
RECURSIVE ForwardFrom(_, _)
ForwardFrom(buf, end_idx) ==
    IF end_idx > Len(buf) THEN 0
    ELSE IF Parses(Join(SubSeq(buf, 1, end_idx))) THEN end_idx
    ELSE ForwardFrom(buf, end_idx + 1)

\* mutant: the scan runs from the longest prefix down
RECURSIVE BackwardFrom(_, _)
BackwardFrom(buf, end_idx) ==
    IF end_idx < 1 THEN 0
    ELSE IF Parses(Join(SubSeq(buf, 1, end_idx))) THEN end_idx
    ELSE BackwardFrom(buf, end_idx - 1)

try_parse_forward_segments_Longest(buf) == BackwardFrom(buf, Len(buf))

try_parse_forward_segments(buf) == ForwardFrom(buf, 1)

\* mutant: for end_idx in 0..=len, the empty segment is parsed first
ForwardAttempts_FromZero(buf, end_idx) ==
    IF end_idx = 0 THEN Len(buf) + 1 ELSE end_idx + 1

\* from_str calls made by a try_parse_forward_segments that returned end_idx
ForwardAttempts(buf, end_idx) == IF end_idx = 0 THEN Len(buf) ELSE end_idx

\* mutant: for _ in 0..=end_idx
RemoveFirst_OneMore(buf, n) == SubSeq(buf, n + 2, Len(buf))

\* for _ in 0..end_idx { self.buffer.remove(0); }
RemoveFirst(buf, n) == SubSeq(buf, n + 1, Len(buf))

\* ------------------------------------------------- one loop iteration
\* The effect of the match arm on (buffer, state): the buffer and state after
\* it, the records pushed, the lines they took, is_stable, the from_str calls,
\* and whether the arm indexed an empty buffer.
Step(buf, st, rec, src, stable, n, panic) ==
    [buffer |-> buf, state |-> st, rec |-> rec, src |-> src,
     stable |-> stable, attempts |-> n, panic |-> panic]

\* mutant: overflow only when the length exceeds max_lines
Accumulating_Late(buf, cap) ==
    IF try_parse_buffer_segments(buf)
    THEN Step(<<>>, "Accumulating", Json(JsonValue(Join(buf))), buf, FALSE, 1, FALSE)
    ELSE IF Len(buf) > cap
    THEN Step(Tail(buf), "Draining", Text(buf[1]), <<buf[1]>>, FALSE, 1, FALSE)
    ELSE IF Len(buf) = 1 /\ ~could_be_json_start(buf[1])
    THEN Step(Tail(buf), "Accumulating", Text(buf[1]), <<buf[1]>>, FALSE, 1, FALSE)
    ELSE Step(buf, "Accumulating", Text(<<>>), <<>>, TRUE, 1, FALSE)

\* mutant: overflow one line early
Accumulating_Early(buf, cap) ==
    IF try_parse_buffer_segments(buf)
    THEN Step(<<>>, "Accumulating", Json(JsonValue(Join(buf))), buf, FALSE, 1, FALSE)
    ELSE IF Len(buf) + 1 >= cap
    THEN Step(Tail(buf), "Draining", Text(buf[1]), <<buf[1]>>, FALSE, 1, FALSE)
    ELSE IF Len(buf) = 1 /\ ~could_be_json_start(buf[1])
    THEN Step(Tail(buf), "Accumulating", Text(buf[1]), <<buf[1]>>, FALSE, 1, FALSE)
    ELSE Step(buf, "Accumulating", Text(<<>>), <<>>, TRUE, 1, FALSE)

\* mutant: overflow evicts the newest line (pop) instead of the oldest
Accumulating_EvictNewest(buf, cap) ==
    IF try_parse_buffer_segments(buf)
    THEN Step(<<>>, "Accumulating", Json(JsonValue(Join(buf))), buf, FALSE, 1, FALSE)
    ELSE IF Len(buf) >= cap
    THEN Step(SubSeq(buf, 1, Len(buf) - 1), "Draining", Text(buf[Len(buf)]),
              <<buf[Len(buf)]>>, FALSE, 1, FALSE)
    ELSE IF Len(buf) = 1 /\ ~could_be_json_start(buf[1])
    THEN Step(Tail(buf), "Accumulating", Text(buf[1]), <<buf[1]>>, FALSE, 1, FALSE)
    ELSE Step(buf, "Accumulating", Text(<<>>), <<>>, TRUE, 1, FALSE)

\* mutant: when the newest line parses by itself the older lines are given up
\* at once, as on overflow
Accumulating_Greedy(buf, cap) ==
    IF try_parse_buffer_segments(buf)
    THEN Step(<<>>, "Accumulating", Json(JsonValue(Join(buf))), buf, FALSE, 1, FALSE)
    ELSE IF Len(buf) >= cap \/ (Len(buf) >= 2 /\ Parses(buf[Len(buf)]))
    THEN Step(Tail(buf), "Draining", Text(buf[1]), <<buf[1]>>, FALSE, 1, FALSE)
    ELSE IF Len(buf) = 1 /\ ~could_be_json_start(buf[1])
    THEN Step(Tail(buf), "Accumulating", Text(buf[1]), <<buf[1]>>, FALSE, 1, FALSE)
    ELSE Step(buf, "Accumulating", Text(<<>>), <<>>, TRUE, 1, FALSE)

\* mutant: the overflow test comes before the parse of the whole buffer
Accumulating_OverflowFirst(buf, cap) ==
    IF Len(buf) >= cap
    THEN Step(Tail(buf), "Draining", Text(buf[1]), <<buf[1]>>, FALSE, 0, FALSE)
    ELSE IF try_parse_buffer_segments(buf)
    THEN Step(<<>>, "Accumulating", Json(JsonValue(Join(buf))), buf, FALSE, 1, FALSE)
    ELSE IF Len(buf) = 1 /\ ~could_be_json_start(buf[1])
    THEN Step(Tail(buf), "Accumulating", Text(buf[1]), <<buf[1]>>, FALSE, 1, FALSE)
    ELSE Step(buf, "Accumulating", Text(<<>>), <<>>, TRUE, 1, FALSE)

\* mutant: a lone buffered line is passed through as Text even when it is
\* JSON-like
Accumulating_NoWait(buf, cap) ==
    IF try_parse_buffer_segments(buf)
    THEN Step(<<>>, "Accumulating", Json(JsonValue(Join(buf))), buf, FALSE, 1, FALSE)
    ELSE IF Len(buf) >= cap
    THEN Step(Tail(buf), "Draining", Text(buf[1]), <<buf[1]>>, FALSE, 1, FALSE)
    ELSE IF Len(buf) = 1
    THEN Step(Tail(buf), "Accumulating", Text(buf[1]), <<buf[1]>>, FALSE, 1, FALSE)
    ELSE Step(buf, "Accumulating", Text(<<>>), <<>>, TRUE, 1, FALSE)

Accumulating(buf, cap) ==
    IF try_parse_buffer_segments(buf)
    THEN Step(<<>>, "Accumulating", Json(JsonValue(Join(buf))), buf, FALSE, 1, FALSE)
    ELSE IF Len(buf) >= cap
    THEN IF Len(buf) = 0
         THEN Step(buf, "Accumulating", Text(<<>>), <<>>, FALSE, 1, TRUE)
         ELSE Step(Tail(buf), "Draining", Text(buf[1]), <<buf[1]>>, FALSE, 1, FALSE)
    ELSE IF Len(buf) = 1 /\ ~could_be_json_start(buf[1])
    THEN Step(Tail(buf), "Accumulating", Text(buf[1]), <<buf[1]>>, FALSE, 1, FALSE)
    ELSE Step(buf, "Accumulating", Text(<<>>), <<>>, TRUE, 1, FALSE)

\* mutant: Draining stops as soon as no prefix parses, also when the first
\* line is not JSON-like
DrainingAt_Stop(buf, end_idx) ==
    IF end_idx # 0
    THEN Step(RemoveFirst(buf, end_idx), "Draining",
              Json(JsonValue(Join(SubSeq(buf, 1, end_idx)))),
              SubSeq(buf, 1, end_idx), FALSE, ForwardAttempts(buf, end_idx), FALSE)
    ELSE Step(buf, "Accumulating", Text(<<>>), <<>>, TRUE,
              ForwardAttempts(buf, end_idx), FALSE)

\* mutant: after a step that made progress the state goes back to
\* Accumulating instead of staying in Draining
DrainingAt_Once(buf, end_idx) ==
    IF end_idx # 0
    THEN Step(RemoveFirst(buf, end_idx), "Accumulating",
              Json(JsonValue(Join(SubSeq(buf, 1, end_idx)))),
              SubSeq(buf, 1, end_idx), FALSE, ForwardAttempts(buf, end_idx), FALSE)
    ELSE IF Len(buf) = 0
    THEN Step(buf, "Draining", Text(<<>>), <<>>, FALSE, 0, TRUE)
    ELSE IF ~could_be_json_start(buf[1])
    THEN Step(Tail(buf), "Accumulating", Text(buf[1]), <<buf[1]>>, FALSE,
              ForwardAttempts(buf, end_idx), FALSE)
    ELSE Step(buf, "Accumulating", Text(<<>>), <<>>, TRUE,
              ForwardAttempts(buf, end_idx), FALSE)

\* mutant: when no progress is possible the first line is given up as Text,
\* as on overflow, instead of going back to Accumulating
DrainingAt_GiveUp(buf, end_idx) ==
    IF end_idx # 0
    THEN Step(RemoveFirst(buf, end_idx), "Draining",
              Json(JsonValue(Join(SubSeq(buf, 1, end_idx)))),
              SubSeq(buf, 1, end_idx), FALSE, ForwardAttempts(buf, end_idx), FALSE)
    ELSE IF Len(buf) = 0
    THEN Step(buf, "Draining", Text(<<>>), <<>>, FALSE, 0, TRUE)
    ELSE Step(Tail(buf), "Draining", Text(buf[1]), <<buf[1]>>, FALSE,
              ForwardAttempts(buf, end_idx), FALSE)

\* the Draining arm, end_idx being the result of the forward scan (0: None)
DrainingAt(buf, end_idx) ==
    IF end_idx # 0
    THEN Step(RemoveFirst(buf, end_idx), "Draining",
              Json(JsonValue(Join(SubSeq(buf, 1, end_idx)))),
              SubSeq(buf, 1, end_idx), FALSE, ForwardAttempts(buf, end_idx), FALSE)
    ELSE IF Len(buf) = 0
    THEN Step(buf, "Draining", Text(<<>>), <<>>, FALSE, 0, TRUE)
    ELSE IF ~could_be_json_start(buf[1])
    THEN Step(Tail(buf), "Draining", Text(buf[1]), <<buf[1]>>, FALSE,
              ForwardAttempts(buf, end_idx), FALSE)
    ELSE Step(buf, "Accumulating", Text(<<>>), <<>>, TRUE,
              ForwardAttempts(buf, end_idx), FALSE)

Draining(buf) == DrainingAt(buf, try_parse_forward_segments(buf))

\* mutant: drain waits like Draining: a JSON-like first line of which no prefix
\* parses is reported as Incomplete and stays buffered
DrainIteration_Wait(buf) ==
    IF DrainingAt(buf, try_parse_forward_segments(buf)).stable
    THEN Step(buf, "Draining", Incomplete(buf), <<>>, FALSE, Len(buf), FALSE)
    ELSE DrainingAt(buf, try_parse_forward_segments(buf))

\* mutant: drain consults the heuristic: a JSON-like first line of which no
\* prefix parses is given up together with everything behind it, as one Text
DrainIterationAt_Heuristic(buf, end_idx) ==
    IF end_idx # 0
    THEN Step(RemoveFirst(buf, end_idx), "Draining",
              Json(JsonValue(Join(SubSeq(buf, 1, end_idx)))),
              SubSeq(buf, 1, end_idx), FALSE, ForwardAttempts(buf, end_idx), FALSE)
    ELSE IF could_be_json_start(buf[1])
    THEN Step(<<>>, "Draining", Text(Join(buf)), buf, FALSE,
              ForwardAttempts(buf, end_idx), FALSE)
    ELSE Step(Tail(buf), "Draining", Text(buf[1]), <<buf[1]>>, FALSE,
              ForwardAttempts(buf, end_idx), FALSE)

\* the body of drain's while loop, end_idx being the result of the forward scan
DrainIterationAt(buf, end_idx) ==
    IF end_idx # 0
    THEN Step(RemoveFirst(buf, end_idx), "Draining",
              Json(JsonValue(Join(SubSeq(buf, 1, end_idx)))),
              SubSeq(buf, 1, end_idx), FALSE, ForwardAttempts(buf, end_idx), FALSE)
    ELSE Step(Tail(buf), "Draining", Text(buf[1]), <<buf[1]>>, FALSE,
              ForwardAttempts(buf, end_idx), FALSE)

DrainIteration(buf) == DrainIterationAt(buf, try_parse_forward_segments(buf))

\* ------------------------------------------------------------- history
Call(op, line, pre) ==
    [op |-> op, line |-> line, pre |-> pre, results |-> <<>>, post |-> <<>>,
     done |-> FALSE]

Return(cs, res, post) ==
    [cs EXCEPT ![Len(cs)].results = res, ![Len(cs)].post = post,
               ![Len(cs)].done = TRUE]

Logged(rec, src) == [kind |-> rec.kind, value |-> rec.value, src |-> src]

\* ---------------------------------------------------------------- actions
\* mutant: no quick shortcut, every line is pushed
AddLine_NoShortcut(line) ==
    /\ pc = "idle"
    /\ parses' = 0
    /\ iterations' = 0
    /\ buffer' = Append(buffer, line)
    /\ results' = <<>>
    /\ state' = "Accumulating"
    /\ pc' = "add_line"
    /\ calls' = Append(calls, Call("add_line", line, buffer))
    /\ UNCHANGED <<max_lines, log>>

\* mutant: the state is a field of the buffer and is kept from call to call
AddLine_KeepState(line) ==
    /\ pc = "idle"
    /\ parses' = 0
    /\ iterations' = 0
    /\ IF buffer = <<>> /\ ~could_be_json_start(line)
       THEN /\ results' = <<Text(line)>>
            /\ calls' = Return(Append(calls, Call("add_line", line, buffer)),
                               <<Text(line)>>, buffer)
            /\ log' = Append(log, Logged(Text(line), <<line>>))
            /\ UNCHANGED <<buffer, pc, state>>
       ELSE /\ buffer' = Append(buffer, line)
            /\ results' = <<>>
            /\ state' = state
            /\ pc' = "add_line"
            /\ calls' = Append(calls, Call("add_line", line, buffer))
            /\ UNCHANGED log
    /\ UNCHANGED max_lines

\* mutant: the quick shortcut is taken for every line that is not JSON-like,
\* whether or not the buffer is empty
AddLine_ShortcutAlways(line) ==
    /\ pc = "idle"
    /\ parses' = 0
    /\ iterations' = 0
    /\ IF ~could_be_json_start(line)
       THEN /\ results' = <<Text(line)>>
            /\ calls' = Return(Append(calls, Call("add_line", line, buffer)),
                               <<Text(line)>>, buffer)
            /\ log' = Append(log, Logged(Text(line), <<line>>))
            /\ UNCHANGED <<buffer, pc, state>>
       ELSE /\ buffer' = Append(buffer, line)
            /\ results' = <<>>
            /\ state' = "Accumulating"
            /\ pc' = "add_line"
            /\ calls' = Append(calls, Call("add_line", line, buffer))
            /\ UNCHANGED log
    /\ UNCHANGED max_lines

\* add_line up to the loop: the quick shortcut, or the push
AddLine(line) ==
    /\ pc = "idle"
    /\ parses' = 0
    /\ iterations' = 0
    /\ IF buffer = <<>> /\ ~could_be_json_start(line)
       THEN /\ results' = <<Text(line)>>
            /\ calls' = Return(Append(calls, Call("add_line", line, buffer)),
                               <<Text(line)>>, buffer)
            /\ log' = Append(log, Logged(Text(line), <<line>>))
            /\ UNCHANGED <<buffer, pc, state>>
       ELSE /\ buffer' = Append(buffer, line)
            /\ results' = <<>>
            /\ state' = "Accumulating"
            /\ pc' = "add_line"
            /\ calls' = Append(calls, Call("add_line", line, buffer))
            /\ UNCHANGED log
    /\ UNCHANGED max_lines

\* results after the arm s, and after the push of Incomplete at a stable exit
Pushed(res, s) == IF s.stable THEN res ELSE Append(res, s.rec)

\* mutant: no Incomplete is pushed at a stable exit
Final_NoIncomplete(res, s) == Pushed(res, s)

Final(res, s) ==
    IF s.stable /\ s.buffer # <<>>
    THEN Append(res, Incomplete(s.buffer)) ELSE Pushed(res, s)

\* mutant: the loop does not stop at a stable point, only on an empty buffer
AddLineLoop_NoStableExit ==
    /\ pc = "add_line"
    /\ \E s \in {IF state = "Accumulating" THEN Accumulating(buffer, max_lines)
                 ELSE Draining(buffer)} :
           /\ parses' = parses + s.attempts
           /\ iterations' = iterations + 1
           /\ IF s.panic
              THEN /\ pc' = "panicked"
                   /\ UNCHANGED <<buffer, state, results, calls, log>>
              ELSE /\ buffer' = s.buffer
                   /\ state' = s.state
                   /\ log' = IF s.stable THEN log
                             ELSE Append(log, Logged(s.rec, s.src))
                   /\ IF s.buffer = <<>>
                      THEN /\ results' = Final(results, s)
                           /\ pc' = "idle"
                           /\ calls' = Return(calls, Final(results, s), s.buffer)
                      ELSE /\ results' = Pushed(results, s)
                           /\ pc' = "add_line"
                           /\ UNCHANGED calls
    /\ UNCHANGED <<max_lines, procvars>>

\* mutant: the loop does not stop when the buffer has become empty
AddLineLoop_NoEmptyExit ==
    /\ pc = "add_line"
    /\ \E s \in {IF state = "Accumulating" THEN Accumulating(buffer, max_lines)
                 ELSE Draining(buffer)} :
           /\ parses' = parses + s.attempts
           /\ iterations' = iterations + 1
           /\ IF s.panic
              THEN /\ pc' = "panicked"
                   /\ UNCHANGED <<buffer, state, results, calls, log>>
              ELSE /\ buffer' = s.buffer
                   /\ state' = s.state
                   /\ log' = IF s.stable THEN log
                             ELSE Append(log, Logged(s.rec, s.src))
                   /\ IF s.stable
                      THEN /\ results' = Final(results, s)
                           /\ pc' = "idle"
                           /\ calls' = Return(calls, Final(results, s), s.buffer)
                      ELSE /\ results' = Pushed(results, s)
                           /\ pc' = "add_line"
                           /\ UNCHANGED calls
    /\ UNCHANGED <<max_lines, procvars>>

\* mutant: the loop also breaks when the iteration changed the state
AddLineLoop_BreakOnState ==
    /\ pc = "add_line"
    /\ \E s \in {IF state = "Accumulating" THEN Accumulating(buffer, max_lines)
                 ELSE Draining(buffer)} :
           /\ parses' = parses + s.attempts
           /\ iterations' = iterations + 1
           /\ IF s.panic
              THEN /\ pc' = "panicked"
                   /\ UNCHANGED <<buffer, state, results, calls, log>>
              ELSE /\ buffer' = s.buffer
                   /\ state' = s.state
                   /\ log' = IF s.stable THEN log
                             ELSE Append(log, Logged(s.rec, s.src))
                   /\ IF s.stable \/ s.buffer = <<>> \/ s.state # state
                      THEN /\ results' = Final(results, s)
                           /\ pc' = "idle"
                           /\ calls' = Return(calls, Final(results, s), s.buffer)
                      ELSE /\ results' = Pushed(results, s)
                           /\ pc' = "add_line"
                           /\ UNCHANGED calls
    /\ UNCHANGED <<max_lines, procvars>>

\* one iteration of add_line's loop, with the two exits at its end
AddLineLoop ==
    /\ pc = "add_line"
    /\ \E s \in {IF state = "Accumulating" THEN Accumulating(buffer, max_lines)
                 ELSE Draining(buffer)} :
           /\ parses' = parses + s.attempts
           /\ iterations' = iterations + 1
           /\ IF s.panic
              THEN /\ pc' = "panicked"
                   /\ UNCHANGED <<buffer, state, results, calls, log>>
              ELSE /\ buffer' = s.buffer
                   /\ state' = s.state
                   /\ log' = IF s.stable THEN log
                             ELSE Append(log, Logged(s.rec, s.src))
                   /\ IF s.stable \/ s.buffer = <<>>
                      THEN /\ results' = Final(results, s)
                           /\ pc' = "idle"
                           /\ calls' = Return(calls, Final(results, s), s.buffer)
                      ELSE /\ results' = Pushed(results, s)
                           /\ pc' = "add_line"
                           /\ UNCHANGED calls
    /\ UNCHANGED <<max_lines, procvars>>

\* mutant: the results vector is not created afresh
Drain_KeepResults ==
    /\ pc = "idle"
    /\ pc' = "drain"
    /\ results' = results
    /\ parses' = 0
    /\ iterations' = 0
    /\ calls' = Append(calls, Call("drain", <<>>, buffer))
    /\ UNCHANGED <<max_lines, buffer, state, log>>

\* drain up to the loop
Drain ==
    /\ pc = "idle"
    /\ pc' = "drain"
    /\ results' = <<>>
    /\ parses' = 0
    /\ iterations' = 0
    /\ calls' = Append(calls, Call("drain", <<>>, buffer))
    /\ UNCHANGED <<max_lines, buffer, state, log>>

\* the test of drain's while loop and, when it holds, one iteration
DrainLoop ==
    /\ pc = "drain"
    /\ IF buffer = <<>>
       THEN /\ pc' = "idle"
            /\ calls' = Return(calls, results, buffer)
            /\ UNCHANGED <<buffer, results, parses, iterations, log>>
       ELSE \E s \in {DrainIteration(buffer)} :
                /\ buffer' = s.buffer
                /\ results' = Append(results, s.rec)
                /\ parses' = parses + s.attempts
                /\ iterations' = iterations + 1
                /\ log' = Append(log, Logged(s.rec, s.src))
                /\ UNCHANGED <<pc, calls>>
    /\ UNCHANGED <<max_lines, state, procvars>>

SubmitLine ==
    /\ Len(calls) < MaxCalls
    /\ \E line \in Lines : AddLine(line)
    /\ UNCHANGED procvars

Flush == Len(calls) < MaxCalls /\ Drain /\ UNCHANGED procvars

Next == SubmitLine \/ AddLineLoop \/ Flush \/ DrainLoop

Spec == Init /\ [][Next]_vars

\* one generated line submitted to a fresh buffer, then drain
SubmitGenerated ==
    /\ calls = <<>>
    /\ \E line \in GenLines : AddLine(line)
    /\ UNCHANGED procvars

FlushOnce == Len(calls) = 1 /\ Drain /\ UNCHANGED procvars

NextLine == SubmitGenerated \/ AddLineLoop \/ FlushOnce \/ DrainLoop

SpecLine == Init /\ [][NextLine]_vars

\* one line of StartLines submitted to a fresh buffer, then drain
SubmitStart ==
    /\ calls = <<>>
    /\ \E line \in StartLines : AddLine(line)
    /\ UNCHANGED procvars

NextStart == SubmitStart \/ AddLineLoop \/ FlushOnce \/ DrainLoop

SpecStart == Init /\ [][NextStart]_vars

\* the scenario lines submitted to a fresh buffer in any order, with drains
SubmitScenario ==
    /\ Len(calls) < MaxCalls
    /\ \E line \in ScenarioLines : AddLine(line)
    /\ UNCHANGED procvars

NextScenario == SubmitScenario \/ AddLineLoop \/ Flush \/ DrainLoop

SpecScenario == Init /\ [][NextScenario]_vars

\* ------------------------------------------------------------ the filters
\* ASCII case folding, as the (?i) flag of the regex applies it
UpperCase == <<"A", "B", "C", "D", "E", "F", "G", "H", "I", "J", "K", "L", "M",
               "N", "O", "P", "Q", "R", "S", "T", "U", "V", "W", "X", "Y", "Z">>

LowerCase == <<"a", "b", "c", "d", "e", "f", "g", "h", "i", "j", "k", "l", "m",
               "n", "o", "p", "q", "r", "s", "t", "u", "v", "w", "x", "y", "z">>

to_lowercase(c) ==
    IF \E k \in 1..26 : UpperCase[k] = c
    THEN LowerCase[CHOOSE k \in 1..26 : UpperCase[k] = c]
    ELSE c

\* OutputFilter: the four variants
NoFilter == [type |-> "None"]

\* RegexFilter::new: "(?i)" is put in front unless case_sensitive
RegexFilter(pattern, case_sensitive) ==
    [type |-> "Regex", pattern |-> pattern, case_insensitive |-> ~case_sensitive]

JsonOnlyFilter(inner_filter) == [type |-> "JsonOnly", inner_filter |-> inner_filter]

InvertFilter(inner_filter) == [type |-> "Invert", inner_filter |-> inner_filter]

\* Regex::is_match for a pattern of literal characters: it occurs in content
is_match(regex, content) ==
    \E i \in 1..(Len(content) - Len(regex.pattern) + 1) :
        \A k \in 1..Len(regex.pattern) :
            IF regex.case_insensitive
            THEN to_lowercase(content[i + k - 1]) = to_lowercase(regex.pattern[k])
            ELSE content[i + k - 1] = regex.pattern[k]

\* from_args: base_filter, filter_with_json_only, and the result
base_filter(args) ==
    IF args.pattern = <<>> THEN NoFilter
    ELSE RegexFilter(args.pattern[1], args.case_sensitive)

filter_with_json_only(args) ==
    IF args.json_only THEN JsonOnlyFilter(base_filter(args)) ELSE base_filter(args)

\* mutant: the inversion is applied to the pattern only, inside json_only
from_args_InvertInner(args) ==
    IF args.json_only
    THEN JsonOnlyFilter(IF args.invert_match THEN InvertFilter(base_filter(args))
                        ELSE base_filter(args))
    ELSE IF args.invert_match THEN InvertFilter(base_filter(args))
    ELSE base_filter(args)

from_args(args) ==
    IF args.invert_match THEN InvertFilter(filter_with_json_only(args))
    ELSE filter_with_json_only(args)

\* FilterInput::try_from(&BufferResult): Err for Incomplete; the content is the
\* text of a Text and the compact serialisation of a Json value
FilterInput(result) ==
    [ok |-> result.kind # "Incomplete", kind |-> result.kind, value |-> result.value]

\* Filter::matches, by variant
RECURSIVE matches(_, _)
matches(f, x) ==
    IF f.type = "None" THEN TRUE
    ELSE IF f.type = "Regex" THEN is_match(f, x.value)
    ELSE IF f.type = "JsonOnly" THEN x.kind = "Json" /\ matches(f.inner_filter, x)
    ELSE ~matches(f.inner_filter, x)

\* a record on the output: the formatted value of a Json, the line of a Text
Written(result) == [kind |-> result.kind, value |-> result.value]

\* mutant: the snapshot of an Incomplete is written as text
RECURSIVE handle_results_Snapshot(_, _)
handle_results_Snapshot(rs, f) ==
    IF rs = <<>> THEN <<>>
    ELSE (IF rs[1].kind = "Incomplete"
          THEN <<[kind |-> "Incomplete", value |-> Join(rs[1].lines)]>>
          ELSE IF matches(f, FilterInput(rs[1])) THEN <<Written(rs[1])>>
          ELSE <<>>)
         \o handle_results_Snapshot(Tail(rs), f)

\* handle_results: the records it writes for results, in order
RECURSIVE handle_results(_, _)
handle_results(rs, f) ==
    IF rs = <<>> THEN <<>>
    ELSE (IF /\ FilterInput(rs[1]).ok
             /\ matches(f, FilterInput(rs[1]))
             /\ rs[1].kind \in {"Json", "Text"}
          THEN <<Written(rs[1])>>
          ELSE <<>>)
         \o handle_results(Tail(rs), f)

\* ------------------------------------------------------- the driving loop
\* what read_line returns: a line with its terminator, the last one maybe
\* without
RawLines ==
    { <<"{", "\n">>, <<"}", "\n">>, <<"\"", "A", "\"", "\r", "\n">>,
      <<"a", "\n">>, <<"a", "\r", "\r", "\n">>, <<"\r", "\n">>, <<"}">>,
      <<"a", "\r">> }

Patterns == {<<>>, <<(<<"a">>)>>}

AllFilterArgs ==
    {FilterArgs(p, cs, jo, inv) : p \in Patterns, cs \in BOOLEAN,
                                  jo \in BOOLEAN, inv \in BOOLEAN}

EndsWith(s, c) == Len(s) > 0 /\ s[Len(s)] = c

Pop(s) == SubSeq(s, 1, Len(s) - 1)

\* mutant: only the "\n" is removed
StripNewline_LfOnly(raw) == IF EndsWith(raw, "\n") THEN Pop(raw) ELSE raw

\* the line passed to add_line: "\n" removed, then one "\r"
StripNewline(raw) ==
    IF EndsWith(raw, "\n")
    THEN IF EndsWith(Pop(raw), "\r") THEN Pop(Pop(raw)) ELSE Pop(raw)
    ELSE raw

\* main: the filter and the buffer are built from the arguments, then process
InitProcess ==
    /\ max_lines \in 0..MaxCapacity
    /\ buffer = <<>>
    /\ pc = "idle"
    /\ state = "Accumulating"
    /\ results = <<>>
    /\ parses = 0
    /\ calls = <<>>
    /\ log = <<>>
    /\ iterations = 0
    /\ filter \in AllFilterArgs
    /\ input = <<>>
    /\ writer = <<>>
    /\ ppc = "read"

\* read_line returned a line: it is stripped and passed to add_line
ReadLine ==
    /\ ppc = "read"
    /\ pc = "idle"
    /\ Len(input) < MaxReads
    /\ IF input = <<>> THEN TRUE ELSE EndsWith(input[Len(input)], "\n")
    /\ \E raw \in RawLines :
           /\ AddLine(StripNewline(raw))
           /\ input' = Append(input, raw)
    /\ ppc' = "handle"
    /\ UNCHANGED <<filter, writer>>

\* mutant: at the end of input process returns without calling drain
ReadEof_NoDrain ==
    /\ ppc = "read"
    /\ pc = "idle"
    /\ ppc' = "done"
    /\ UNCHANGED <<max_lines, buffer, pc, state, results, parses, calls, log,
                   iterations, filter, input, writer>>

\* read_line returned 0: the loop ends and drain is called
ReadEof ==
    /\ ppc = "read"
    /\ pc = "idle"
    /\ Drain
    /\ ppc' = "handle_drain"
    /\ UNCHANGED <<filter, input, writer>>

\* read_line returned Err (an I/O error, bytes that are not UTF-8): process
\* returns it
ReadError ==
    /\ ppc = "read"
    /\ pc = "idle"
    /\ ppc' = "failed"
    /\ UNCHANGED <<max_lines, buffer, pc, state, results, parses, calls, log,
                   iterations, filter, input, writer>>

\* mutant: when the filter suppresses a record of the call, the classifier is
\* reset: the lines still buffered are dropped
HandleResults_Reset ==
    /\ pc = "idle"
    /\ ppc \in {"handle", "handle_drain"}
    /\ \E n \in 0..Len(handle_results(results, from_args(filter))) :
           /\ writer' = writer \o
                  SubSeq(handle_results(results, from_args(filter)), 1, n)
           /\ ppc' = IF n < Len(handle_results(results, from_args(filter)))
                     THEN "failed"
                     ELSE IF ppc = "handle" THEN "read" ELSE "done"
    /\ buffer' = IF Len(handle_results(results, from_args(filter))) <
                        Len(handle_results(results, NoFilter))
                 THEN <<>> ELSE buffer
    /\ UNCHANGED <<max_lines, pc, state, results, parses, calls, log,
                   iterations, filter, input>>

\* handle_results on the results of the call that returned: the first n
\* records are written; when a write fails process returns the error
HandleResults ==
    /\ pc = "idle"
    /\ ppc \in {"handle", "handle_drain"}
    /\ \E n \in 0..Len(handle_results(results, from_args(filter))) :
           /\ writer' = writer \o
                  SubSeq(handle_results(results, from_args(filter)), 1, n)
           /\ ppc' = IF n < Len(handle_results(results, from_args(filter)))
                     THEN "failed"
                     ELSE IF ppc = "handle" THEN "read" ELSE "done"
    /\ UNCHANGED <<max_lines, buffer, pc, state, results, parses, calls, log,
                   iterations, filter, input>>

NextProcess ==
    ReadLine \/ ReadEof \/ ReadError \/ AddLineLoop \/ DrainLoop \/ HandleResults

SpecProcess == InitProcess /\ [][NextProcess]_vars

TypeOK ==
    /\ max_lines \in 0..MaxCapacity
    /\ pc \in {"idle", "add_line", "drain", "panicked"}
    /\ state \in {"Accumulating", "Draining"}
    /\ parses \in Nat
    /\ iterations \in Nat
    /\ ppc \in {"off", "read", "handle", "handle_drain", "done", "failed"}

\* ------------------------------------------------------- history helpers
LastCall == calls[Len(calls)]

\* the lines passed to add_line so far, in call order
RECURSIVE SubmittedIn(_)
SubmittedIn(cs) ==
    IF Len(cs) = 0 THEN <<>>
    ELSE LET c == cs[Len(cs)]
             before == SubmittedIn(SubSeq(cs, 1, Len(cs) - 1))
         IN  IF c.op = "add_line" THEN Append(before, c.line) ELSE before

Submitted == SubmittedIn(calls)

\* the lines taken by the first n logged records, in emission order
RECURSIVE TakenBy(_, _)
TakenBy(lg, n) ==
    IF n = 0 THEN <<>> ELSE TakenBy(lg, n - 1) \o lg[n].src

\* the Json/Text records returned so far by all calls, in order
RECURSIVE OutputOf(_)
OutputOf(rs) ==
    IF Len(rs) = 0 THEN <<>>
    ELSE IF rs[1].kind = "Incomplete" THEN OutputOf(Tail(rs))
    ELSE <<[kind |-> rs[1].kind, value |-> rs[1].value]>> \o OutputOf(Tail(rs))

RECURSIVE ReturnedBy(_)
ReturnedBy(cs) ==
    IF Len(cs) = 0 THEN <<>>
    ELSE ReturnedBy(SubSeq(cs, 1, Len(cs) - 1)) \o
         (IF cs[Len(cs)].done THEN OutputOf(cs[Len(cs)].results) ELSE OutputOf(results))

LoggedRecords == [i \in 1..Len(log) |-> [kind |-> log[i].kind, value |-> log[i].value]]

\* ------------------------------------------------------------------ claims

\* C1: when the buffer is empty and the submitted line is not JSON-like,
\* add_line returns exactly [Text(line)] at once, makes no parse attempt and
\* leaves the buffer empty.
C1_FastPath ==
    (/\ calls # <<>>
     /\ LastCall.op = "add_line"
     /\ LastCall.pre = <<>>
     /\ ~could_be_json_start(LastCall.line))
    => /\ pc = "idle"
       /\ LastCall.done
       /\ results = <<Text(LastCall.line)>>
       /\ LastCall.results = results
       /\ buffer = <<>>
       /\ LastCall.post = <<>>
       /\ parses = 0

C1_Witness ==
    /\ Len(calls) >= 2
    /\ LastCall.op = "add_line"
    /\ LastCall.pre = <<>>
    /\ ~could_be_json_start(LastCall.line)
    /\ LastCall.done
    /\ results = <<Text(LastCall.line)>>

\* C2: for capacity >= 1 the buffer holds at most capacity lines at the start
\* of every add_line call; inside a call it holds at most capacity + 1 lines,
\* and more than capacity only when the next step of that call is the
\* overflow eviction.
C2_CapacityBound ==
    max_lines >= 1 =>
        /\ pc = "idle" => Len(buffer) <= max_lines
        /\ Len(buffer) <= max_lines + 1
        /\ Len(buffer) > max_lines =>
              /\ pc = "add_line"
              /\ state = "Accumulating"
              /\ ~try_parse_buffer_segments(buffer)

\* the buffer is at its largest inside a call and the eviction is next
C2_Witness ==
    /\ max_lines >= 2
    /\ pc = "add_line"
    /\ state = "Accumulating"
    /\ Len(buffer) = max_lines
    /\ ~try_parse_buffer_segments(buffer)

\* C3: the lines taken by the Text and Json records emitted so far, in
\* emission order, followed by the lines still buffered, are exactly the
\* submitted lines in arrival order; the records returned by the calls are the
\* logged ones, and a Text record is the one line it took, unmodified.  Hence
\* after a flush (empty buffer) nothing is dropped, duplicated or reordered.
C3_LineConservation ==
    pc # "panicked" =>
        /\ TakenBy(log, Len(log)) \o buffer = Submitted
        /\ ReturnedBy(calls) = LoggedRecords
        /\ \A i \in 1..Len(log) :
              /\ Len(log[i].src) >= 1
              /\ log[i].kind \in {"Json", "Text"}
              /\ log[i].kind = "Text" => log[i].src = <<log[i].value>>
        /\ (calls # <<>> /\ LastCall.op = "drain" /\ LastCall.done)
              => TakenBy(log, Len(log)) = Submitted

\* a flush has returned that resolved buffered lines into a Text record and a
\* multi-line Json record
C3_Witness ==
    /\ calls # <<>>
    /\ LastCall.op = "drain"
    /\ LastCall.done
    /\ Len(LastCall.pre) >= 3
    /\ \E i \in 1..Len(results) : results[i].kind = "Json"
    /\ \E i \in 1..Len(results) : results[i].kind = "Text"
    /\ TakenBy(log, Len(log)) = Submitted

\* C4: whenever a step pushes a Json record, the lines it removes are a
\* non-empty run at the front of the buffer whose newline-join parses, and the
\* record's value is the value of that join.
PushedJson ==
    /\ pc \in {"add_line", "drain"}
    /\ Len(results') = Len(results) + 1
    /\ results'[Len(results')].kind = "Json"

C4_Step ==
    PushedJson =>
        LET n == Len(buffer) - Len(buffer')
            taken == SubSeq(buffer, 1, n)
        IN  /\ n >= 1
            /\ buffer' = SubSeq(buffer, n + 1, Len(buffer))
            /\ Parses(Join(taken))
            /\ results'[Len(results')] = Json(JsonValue(Join(taken)))
            /\ SubSeq(results', 1, Len(results)) = results

C4_NoFalseJson == [][C4_Step]_vars

\* an add_line call that overflowed has returned a Json record parsed from
\* several lines after the evicted Text
C4_Witness ==
    /\ pc = "idle"
    /\ calls # <<>>
    /\ log # <<>>
    /\ LastCall.op = "add_line"
    /\ Len(results) >= 2
    /\ results[1].kind = "Text"
    /\ results[2].kind = "Json"
    /\ log[Len(log)].kind = "Json"
    /\ Len(log[Len(log)].src) >= 2

\* C5: every step of drain's loop either returns, with the buffer empty, or
\* strictly shrinks the buffer, so drain returns after at most as many
\* iterations as there were buffered lines; when it has returned the buffer is
\* empty and its result holds only Json and Text records.
C5_DrainStep ==
    pc = "drain" =>
        IF buffer = <<>>
        THEN pc' = "idle" /\ buffer' = <<>> /\ results' = results
        ELSE pc' = "drain" /\ Len(buffer') < Len(buffer)

C5_Returned ==
    (calls # <<>> /\ LastCall.op = "drain") =>
        /\ \A i \in 1..Len(results) : results[i].kind \in {"Json", "Text"}
        /\ Len(results) <= Len(LastCall.pre)
        /\ pc = "idle" =>
              /\ LastCall.done
              /\ buffer = <<>>
              /\ LastCall.post = <<>>
              /\ LastCall.results = results

C5_FlushEmpties == []C5_Returned /\ [][C5_DrainStep]_vars

\* drain has returned after resolving a buffer that held a line that was
\* JSON-like but never completed
C5_Witness ==
    /\ pc = "idle"
    /\ calls # <<>>
    /\ LastCall.op = "drain"
    /\ LastCall.done
    /\ Len(LastCall.pre) >= 2
    /\ could_be_json_start(LastCall.pre[1])
    /\ results[1] = Text(LastCall.pre[1])
    /\ buffer = <<>>

\* C6: drain called on an empty buffer returns the empty sequence, makes no
\* parse attempt and leaves the buffer empty; so a drain right after a drain
\* returns nothing.
C6_FlushOnEmpty ==
    /\ (calls # <<>> /\ LastCall.op = "drain" /\ LastCall.pre = <<>>) =>
          /\ results = <<>>
          /\ buffer = <<>>
          /\ parses = 0
          /\ LastCall.done => LastCall.results = <<>> /\ LastCall.post = <<>>
    /\ (/\ Len(calls) >= 2
        /\ LastCall.op = "drain"
        /\ calls[Len(calls) - 1].op = "drain"
        /\ LastCall.done) => LastCall.results = <<>>

\* a second drain has returned right after a drain that returned records
C6_Witness ==
    /\ Len(calls) >= 2
    /\ LastCall.op = "drain"
    /\ LastCall.done
    /\ LastCall.pre = <<>>
    /\ calls[Len(calls) - 1].op = "drain"
    /\ calls[Len(calls) - 1].results # <<>>

\* C7: a forward scan (a Draining iteration of add_line, an iteration of
\* drain) on a buffer of which some prefix parses pushes the Json of the
\* SHORTEST parsing prefix and removes exactly that many lines from the front;
\* when no prefix parses it pushes no Json.
ParsingPrefixes(buf) ==
    {k \in 1..Len(buf) : Parses(Join(SubSeq(buf, 1, k)))}

C7_Step ==
    (/\ buffer # <<>>
     /\ \/ pc = "drain"
        \/ pc = "add_line" /\ state = "Draining") =>
        LET P == ParsingPrefixes(buffer)
        IN  IF P = {} THEN ~PushedJson
            ELSE LET m == CHOOSE k \in P : \A j \in P : k <= j
                 IN  /\ PushedJson
                     /\ results'[Len(results')] =
                            Json(JsonValue(Join(SubSeq(buffer, 1, m))))
                     /\ buffer' = SubSeq(buffer, m + 1, Len(buffer))

C7_ForwardScanMinimal == [][C7_Step]_vars

\* a Draining iteration has just taken a 1-line prefix although the 2-line and
\* the 3-line prefix parsed as well
C7_Witness ==
    /\ pc = "add_line"
    /\ state = "Draining"
    /\ log # <<>>
    /\ log[Len(log)].kind = "Json"
    /\ Len(log[Len(log)].src) = 1
    /\ Len(buffer) >= 2
    /\ Parses(Join(log[Len(log)].src \o SubSeq(buffer, 1, 1)))
    /\ Parses(Join(log[Len(log)].src \o SubSeq(buffer, 1, 2)))

\* C8: for add_line calls i..j that start on an empty buffer, n = j-i+1 <=
\* capacity, whose lines joined parse while no proper prefix does and whose
\* first line is JSON-like: each call before the last returns exactly
\* [Incomplete(lines so far)], the last returns exactly [Json(value)] and
\* leaves the buffer empty.
LinesOfCalls(i, k) == [m \in 1..(k - i + 1) |-> calls[i + m - 1].line]

C8_Run(i, j) ==
    /\ calls[i].pre = <<>>
    /\ \A k \in i..j : calls[k].op = "add_line"
    /\ calls[j].done
    /\ j - i + 1 <= max_lines
    /\ could_be_json_start(calls[i].line)
    /\ Parses(Join(LinesOfCalls(i, j)))
    /\ \A k \in i..(j - 1) : ~Parses(Join(LinesOfCalls(i, k)))

C8_MultiLine ==
    \A i \in 1..Len(calls) : \A j \in i..Len(calls) :
        C8_Run(i, j) =>
            /\ \A k \in i..(j - 1) :
                  /\ calls[k].results = <<Incomplete(LinesOfCalls(i, k))>>
                  /\ calls[k].post = LinesOfCalls(i, k)
            /\ calls[j].results = <<Json(JsonValue(Join(LinesOfCalls(i, j))))>>
            /\ calls[j].post = <<>>

\* a value spread over three lines has been returned, by a buffer of capacity 3
C8_Witness ==
    /\ max_lines = 3
    /\ \E i \in 1..Len(calls) : \E j \in i..Len(calls) :
          j - i + 1 = 3 /\ C8_Run(i, j)

\* C9: a line that parses by itself is JSON-like; submitted to an empty buffer
\* it is pushed, never passed through as Text, and the call returns exactly
\* [Json(value)] and leaves the buffer empty.
C9_NoFalseNegative ==
    (/\ calls # <<>>
     /\ calls[1].op = "add_line"
     /\ calls[1].pre = <<>>
     /\ Parses(calls[1].line)) =>
        /\ could_be_json_start(calls[1].line)
        /\ log # <<>> => log[1].kind = "Json"
        /\ ~calls[1].done =>
              pc = "add_line" /\ buffer = <<calls[1].line>> /\ results = <<>>
        /\ calls[1].done =>
              /\ calls[1].results = <<Json(JsonValue(calls[1].line))>>
              /\ calls[1].post = <<>>

\* a value with whitespace in front of it has been returned as Json
C9_Witness ==
    /\ calls # <<>>
    /\ calls[1].done
    /\ Len(calls[1].line) >= 2
    /\ IsTrimWs(calls[1].line[1])
    /\ Parses(calls[1].line)
    /\ calls[1].results = <<Json(JsonValue(calls[1].line))>>

\* C10: an Accumulating iteration on a buffer that does not parse and has
\* reached capacity removes exactly one line, the oldest, pushes it as the
\* first record Text(oldest) and switches to Draining, whatever the rest of
\* the buffer is.  With capacity 2, "{" then "plain text": the second call
\* returns [Text("{"), Text("plain text")].
C10_Step ==
    (/\ pc = "add_line"
     /\ state = "Accumulating"
     /\ ~Parses(Join(buffer))
     /\ Len(buffer) >= max_lines) =>
        /\ results = <<>>
        /\ results' = <<Text(buffer[1])>>
        /\ buffer' = Tail(buffer)
        /\ state' = "Draining"
        /\ pc' = IF buffer' = <<>> THEN "idle" ELSE "add_line"

C10_Scenario ==
    (/\ max_lines = 2
     /\ Len(calls) >= 2
     /\ calls[1].op = "add_line" /\ calls[1].line = LOpen
     /\ calls[2].op = "add_line" /\ calls[2].line = LText
     /\ calls[2].done) =>
        /\ calls[2].results = <<Text(LOpen), Text(LText)>>
        /\ calls[2].post = <<>>

C10_OverflowEvictsOne == []C10_Scenario /\ [][C10_Step]_vars

\* an overflowing call evicted one line and returned the rest as Incomplete
\* although the rest without its first line would have parsed
C10_Witness ==
    /\ pc = "idle"
    /\ calls # <<>>
    /\ LastCall.op = "add_line"
    /\ LastCall.done
    /\ Len(LastCall.pre) >= 2
    /\ Len(LastCall.pre) + 1 = max_lines
    /\ results = <<Text(LastCall.pre[1]), Incomplete(buffer)>>
    /\ Len(buffer) = Len(LastCall.pre)
    /\ Parses(Join(Tail(buffer)))

\* C11: "{", "\"a\":1", "}" submitted in this order to a fresh buffer and then
\* drained: for every capacity >= 3 the Json/Text records returned by the four
\* calls together are exactly [Json({"a":1})] (the first two calls return only
\* an Incomplete, the third the Json, the drain nothing).
ObjectA == <<"{", "\"", "a", "\"", ":", "1", "}">>

C11_Scenario ==
    /\ Len(calls) >= 4
    /\ calls[1].op = "add_line" /\ calls[1].line = LOpen
    /\ calls[2].op = "add_line" /\ calls[2].line = LKey
    /\ calls[3].op = "add_line" /\ calls[3].line = LClose
    /\ calls[4].op = "drain" /\ calls[4].done

C11_EofIndependent ==
    (max_lines >= 3 /\ C11_Scenario) =>
        /\ ReturnedBy(SubSeq(calls, 1, 4)) = <<[kind |-> "Json", value |-> ObjectA]>>
        /\ calls[1].results = <<Incomplete(<<LOpen>>)>>
        /\ calls[2].results = <<Incomplete(<<LOpen, LKey>>)>>
        /\ calls[3].results = <<Json(ObjectA)>>
        /\ calls[4].results = <<>>

\* the scenario has run to the end of the drain with a capacity above 3
C11_Witness == max_lines > 3 /\ C11_Scenario /\ buffer = <<>>

\* C12: capacity 3, "{bad", "\"x\":1\"", "more", "{\"y\":2}" submitted in this
\* order to a fresh buffer: the 4th add_line overflows (the buffer with the new
\* line has reached capacity and does not parse), its result starts with
\* Text of the oldest buffered line, goes on with what the forward scan takes
\* from the rest (Text("more"), Json({"y":2})), and the buffer it leaves is
\* empty or starts with a JSON-like line and has no parsing prefix.  The
\* first-record and the left-buffer part hold for every overflowing call.
Overflowed(c) ==
    /\ c.op = "add_line"
    /\ c.done
    /\ Len(c.pre) + 1 >= max_lines
    /\ ~(c.pre = <<>> /\ ~could_be_json_start(c.line))
    /\ ~Parses(Join(Append(c.pre, c.line)))

GenuinelyIncomplete(buf) ==
    buf = <<>> \/ (could_be_json_start(buf[1]) /\ ParsingPrefixes(buf) = {})

C12_Scenario ==
    /\ max_lines = 3
    /\ Len(calls) >= 4
    /\ \A k \in 1..4 : calls[k].op = "add_line"
    /\ calls[1].line = LBad /\ calls[2].line = LX
    /\ calls[3].line = LMore /\ calls[4].line = LY
    /\ calls[4].done

C12_OverflowScenario ==
    /\ C12_Scenario =>
          /\ Overflowed(calls[4])
          /\ calls[4].pre = <<LX, LMore>>
          /\ calls[4].results = <<Text(LX), Text(LMore), Json(LY)>>
          /\ calls[4].post = <<>>
    /\ \A k \in 1..Len(calls) :
          Overflowed(calls[k]) =>
              /\ calls[k].results[1] = Text(Append(calls[k].pre, calls[k].line)[1])
              /\ GenuinelyIncomplete(calls[k].post)

\* the 4th call of the scenario has returned
C12_Witness == C12_Scenario /\ pc = "idle" /\ Len(results) = 3

\* C13: for every capacity from 0 up and every sequence of add_line and drain
\* calls, with empty lines among the lines, no step indexes or removes from
\* an empty buffer: the call never panics, and every iteration of add_line's
\* loop, the Draining ones included, starts with a non-empty buffer.
C13_NoPanic ==
    /\ pc # "panicked"
    /\ pc = "add_line" => buffer # <<>>
    /\ pc = "add_line" => ~Accumulating(buffer, max_lines).panic
    /\ (pc = "add_line" /\ state = "Draining") => ~Draining(buffer).panic

\* with capacity 0 a JSON-like line was evicted at once and the call returned
\* from the Draining state with the buffer empty
C13_Witness ==
    /\ max_lines = 0
    /\ Len(calls) >= 2
    /\ pc = "idle"
    /\ state = "Draining"
    /\ LastCall.op = "add_line"
    /\ LastCall.line = LOpen
    /\ LastCall.done
    /\ results = <<Text(LOpen)>>
    /\ buffer = <<>>

\* C14: every iteration of add_line's loop either strictly shrinks the buffer
\* (and goes on only while lines remain) or changes nothing in the buffer and
\* ends the loop; the one change of state that does not shrink the buffer,
\* Draining -> Accumulating, is of the second kind.  So the iterations run
\* plus the lines still buffered never exceed the buffer length after the
\* push, and a call runs at most that length + 1 iterations.
C14_Step ==
    pc = "add_line" =>
        /\ iterations' = iterations + 1
        /\ \/ /\ Len(buffer') < Len(buffer)
              /\ state' \in {state, "Draining"}
              /\ pc' = IF buffer' = <<>> THEN "idle" ELSE "add_line"
           \/ /\ buffer' = buffer
              /\ state' = "Accumulating"
              /\ pc' = "idle"
        /\ (state = "Draining" /\ state' = "Accumulating") =>
              (buffer' = buffer /\ pc' = "idle")

C14_Bound ==
    (calls # <<>> /\ LastCall.op = "add_line") =>
        /\ iterations <= Len(LastCall.pre) + 1 + 1
        /\ pc = "add_line" => iterations + Len(buffer) <= Len(LastCall.pre) + 1

C14_SubmitTerminates == []C14_Bound /\ [][C14_Step]_vars

\* a call has returned after as many iterations as the buffer had lines after
\* the push, the last of them the Draining -> Accumulating one
C14_Witness ==
    /\ pc = "idle"
    /\ calls # <<>>
    /\ LastCall.op = "add_line"
    /\ LastCall.done
    /\ iterations = Len(LastCall.pre) + 1
    /\ iterations >= 3
    /\ state = "Accumulating"
    /\ buffer # <<>>
    /\ Len(results) = iterations

\* the results of all calls so far, one after the other
RECURSIVE AllResults(_)
AllResults(cs) ==
    IF Len(cs) = 0 THEN <<>>
    ELSE AllResults(SubSeq(cs, 1, Len(cs) - 1)) \o
         (IF cs[Len(cs)].done THEN cs[Len(cs)].results ELSE <<>>)

IsPrefix(p, s) == Len(p) <= Len(s) /\ SubSeq(s, 1, Len(p)) = p

\* C15: process writes only Json and Text records.  handle_results appends to
\* the output nothing but records of the results it was given that are Json or
\* Text, so results made of an Incomplete only add no output line, and an
\* Incomplete is never converted to a FilterInput.
C15_Written ==
    /\ \A i \in 1..Len(writer) : writer[i].kind \in {"Json", "Text"}
    /\ Len(writer) <= Len(OutputOf(AllResults(calls)))
    /\ \A i \in 1..Len(results) :
          FilterInput(results[i]).ok <=> results[i].kind \in {"Json", "Text"}

C15_Step ==
    (pc = "idle" /\ ppc \in {"handle", "handle_drain"}) =>
        /\ IsPrefix(writer, writer')
        /\ Len(writer') - Len(writer) <= Len(OutputOf(results))
        /\ \A i \in (Len(writer) + 1)..Len(writer') :
              \E j \in 1..Len(results) :
                  /\ results[j].kind \in {"Json", "Text"}
                  /\ writer'[i] = Written(results[j])

C15_NoIncompleteOutput == []C15_Written /\ [][C15_Step]_vars

\* process has returned Ok with a filter that passes everything; a call had
\* returned an Incomplete, and only the Json/Text records are on the output
C15_Witness ==
    /\ ppc = "done"
    /\ from_args(filter) = NoFilter
    /\ \E i \in 1..Len(AllResults(calls)) : AllResults(calls)[i].kind = "Incomplete"
    /\ writer # <<>>
    /\ Len(writer) < Len(AllResults(calls))

\* C16 as claimed: when process has returned, add_line was called once per
\* line read, in order, drain was called exactly once, as the last call, and
\* without a filter the output is the Json/Text records of all calls in order.
StrippedInput == [i \in 1..Len(input) |-> StripNewline(input[i])]

DrainCalls == {k \in 1..Len(calls) : calls[k].op = "drain"}

C17_JsonOnly_AsClaimed ==
    filter.json_only => \A i \in 1..Len(writer) : writer[i].kind # "Text"

\* an add_line call that has returned and did not take the quick shortcut
LoopCall(c) ==
    /\ c.op = "add_line"
    /\ c.done
    /\ ~(c.pre = <<>> /\ ~could_be_json_start(c.line))

\* C18: every add_line call that has returned, however long ago, returned at
\* least one record; an Incomplete is only ever the last record, it is there
\* exactly when the buffer was non-empty at the return, and its snapshot is the
\* buffer as it was at that return, whatever later calls did to the buffer.
C18_ResultShape ==
    \A k \in 1..Len(calls) :
        (calls[k].op = "add_line" /\ calls[k].done) =>
            /\ Len(calls[k].results) >= 1
            /\ \A i \in 1..Len(calls[k].results) :
                  calls[k].results[i].kind = "Incomplete"
                      => i = Len(calls[k].results)
            /\ calls[k].results[Len(calls[k].results)].kind = "Incomplete"
                  <=> calls[k].post # <<>>
            /\ calls[k].post # <<>> =>
                  calls[k].results[Len(calls[k].results)] = Incomplete(calls[k].post)
            /\ (k = Len(calls) /\ pc = "idle") =>
                  (calls[k].results = results /\ calls[k].post = buffer)

\* a call returned an Incomplete after two other records, and the snapshot an
\* earlier call returned differs from the buffer as it is now
C18_Witness ==
    /\ pc = "idle"
    /\ Len(calls) >= 2
    /\ calls[1].op = "add_line"
    /\ calls[1].results = <<Incomplete(calls[1].post)>>
    /\ calls[1].post # buffer
    /\ LastCall.op = "add_line"
    /\ Len(results) >= 3
    /\ results[Len(results)] = Incomplete(buffer)

\* C19: an add_line call that runs the loop without reaching capacity (buffer
\* length after the push < capacity) returns a Json record only when the
\* whole buffer parses, and then returns just that record; otherwise it
\* returns exactly [Incomplete(buffer)] and holds every line, also when the
\* newest lines would parse by themselves behind an unparsed first line.
C19_Conservative ==
    \A k \in 1..Len(calls) :
        (LoopCall(calls[k]) /\ Len(calls[k].pre) + 1 < max_lines) =>
            IF Parses(Join(Append(calls[k].pre, calls[k].line)))
            THEN /\ calls[k].results =
                       <<Json(JsonValue(Join(Append(calls[k].pre, calls[k].line))))>>
                 /\ calls[k].post = <<>>
            ELSE /\ calls[k].results =
                       <<Incomplete(Append(calls[k].pre, calls[k].line))>>
                 /\ calls[k].post = Append(calls[k].pre, calls[k].line)

\* a line that parses by itself was held behind an unparsed JSON-like line
C19_Witness ==
    /\ pc = "idle"
    /\ calls # <<>>
    /\ LoopCall(LastCall)
    /\ Len(LastCall.pre) >= 1
    /\ Len(LastCall.pre) + 1 < max_lines
    /\ Parses(LastCall.line)
    /\ results = <<Incomplete(Append(LastCall.pre, LastCall.line))>>
    /\ buffer = Append(LastCall.pre, LastCall.line)

\* C20: an add_line call whose push brings the buffer to capacity or beyond
\* and whose whole buffer then parses returns exactly [Json(value)] and leaves
\* the buffer empty: no line is evicted as Text, so a value spread over
\* exactly capacity lines is returned whole.
C20_ParseBeforeOverflow ==
    \A k \in 1..Len(calls) :
        (/\ LoopCall(calls[k])
         /\ Len(calls[k].pre) + 1 >= max_lines
         /\ Parses(Join(Append(calls[k].pre, calls[k].line)))) =>
            /\ calls[k].results =
                  <<Json(JsonValue(Join(Append(calls[k].pre, calls[k].line))))>>
            /\ calls[k].post = <<>>

\* a value spread over exactly capacity lines, capacity at least 2, was
\* returned whole
C20_Witness ==
    /\ pc = "idle"
    /\ calls # <<>>
    /\ LoopCall(LastCall)
    /\ max_lines >= 2
    /\ Len(LastCall.pre) + 1 = max_lines
    /\ results = <<Json(JsonValue(Join(Append(LastCall.pre, LastCall.line))))>>
    /\ buffer = <<>>

\* C21: Draining is greedy.  A Draining iteration pushes the Json of the
\* shortest parsing prefix when there is one, else the Text of the first line
\* when that line is not JSON-like; after either the state is still Draining
\* and the loop goes on unless the buffer has become empty.  An iteration ends
\* the call with lines left only when the first line is JSON-like and no
\* prefix parses, so an overflowing call never returns while a prefix can be
\* extracted or the first line is not JSON-like.
C21_Step ==
    (pc = "add_line" /\ state = "Draining") =>
        IF ParsingPrefixes(buffer) # {}
        THEN /\ Len(buffer) - Len(buffer') \in ParsingPrefixes(buffer)
             /\ \A e \in ParsingPrefixes(buffer) : Len(buffer) - Len(buffer') <= e
             /\ buffer' = SubSeq(buffer, Len(buffer) - Len(buffer') + 1, Len(buffer))
             /\ results' = Append(results,
                   Json(JsonValue(Join(SubSeq(buffer, 1, Len(buffer) - Len(buffer'))))))
             /\ state' = "Draining"
             /\ pc' = IF buffer' = <<>> THEN "idle" ELSE "add_line"
        ELSE IF buffer # <<>> /\ ~could_be_json_start(buffer[1])
        THEN /\ buffer' = Tail(buffer)
             /\ results' = Append(results, Text(buffer[1]))
             /\ state' = "Draining"
             /\ pc' = IF buffer' = <<>> THEN "idle" ELSE "add_line"
        ELSE pc' = "idle"

C21_Stopped ==
    (pc = "idle" /\ calls # <<>> /\ Overflowed(LastCall)) =>
        \/ buffer = <<>>
        \/ could_be_json_start(buffer[1]) /\ ParsingPrefixes(buffer) = {}

C21_DrainingGreedy == []C21_Stopped /\ [][C21_Step]_vars

\* an overflowing call has evicted the oldest line and then, in Draining,
\* taken a Text and a Json before it stopped at a JSON-like line
C21_Witness ==
    /\ pc = "idle"
    /\ calls # <<>>
    /\ Overflowed(LastCall)
    /\ Len(results) = 4
    /\ results[2].kind = "Text"
    /\ results[3].kind = "Json"
    /\ results[4] = Incomplete(buffer)
    /\ iterations = 4

\* C22: a Draining iteration that finds the first line JSON-like and no
\* parsing prefix changes nothing in the buffer, pushes no Json and no Text,
\* sets the state back to Accumulating and ends the call, whose last record
\* is the Incomplete of the unchanged buffer.
C22_Step ==
    (/\ pc = "add_line"
     /\ state = "Draining"
     /\ buffer # <<>>
     /\ ParsingPrefixes(buffer) = {}) =>
        (could_be_json_start(buffer[1]) =>
            /\ buffer' = buffer
            /\ log' = log
            /\ results' = Append(results, Incomplete(buffer))
            /\ state' = "Accumulating"
            /\ pc' = "idle"
            /\ calls'[Len(calls')].done
            /\ calls'[Len(calls')].results = results'
            /\ calls'[Len(calls')].post = buffer)

C22_DrainingNoProgress == [][C22_Step]_vars

\* an overflowing call has returned right after the eviction: the Draining
\* iteration found two lines it could do nothing with
C22_Witness ==
    /\ pc = "idle"
    /\ state = "Accumulating"
    /\ calls # <<>>
    /\ Overflowed(LastCall)
    /\ iterations = 2
    /\ Len(buffer) >= 2
    /\ results = <<Text(LastCall.pre[1]), Incomplete(buffer)>>

\* C23 as claimed: add_line's loop ends only after an iteration that changed
\* neither the buffer nor the state, or when the buffer has become empty.
C23_Step_AsClaimed ==
    (pc = "add_line" /\ pc' = "idle") =>
        \/ buffer' = buffer /\ state' = state
        \/ buffer' = <<>>

C23_LoopEnd_AsClaimed == [][C23_Step_AsClaimed]_vars

\* C23 (amended): add_line's loop ends only after an iteration that left the
\* buffer as it was and pushed no Json or Text, the state after it being
\* Accumulating (unchanged, or changed back from Draining), or when the
\* buffer has become empty.
C23_Step ==
    (pc = "add_line" /\ pc' = "idle") =>
        \/ /\ buffer' = buffer
           /\ log' = log
           /\ state' = "Accumulating"
           /\ state \in {"Accumulating", "Draining"}
        \/ buffer' = <<>>

C23_LoopEnd == [][C23_Step]_vars

\* a call has ended on the iteration that set the state from Draining back to
\* Accumulating, with one line left in the buffer
C23_Witness ==
    /\ pc = "idle"
    /\ calls # <<>>
    /\ Overflowed(LastCall)
    /\ state = "Accumulating"
    /\ Len(buffer) = 1
    /\ iterations >= 2
    /\ results[Len(results)] = Incomplete(buffer)

\* C24: the state is not kept between calls.  The loop of every add_line
\* starts in Accumulating; two calls made with the same buffer contents and
\* the same line return the same records and leave the same buffer, whatever
\* the calls before them did; and a line that parses by itself, pushed below
\* capacity onto the lines an overflowing call left behind, is held: the call
\* returns only the Incomplete of the buffer with the new line.
C24_StartsAccumulating ==
    (pc = "add_line" /\ iterations = 0) => state = "Accumulating"

C24_SameInputSameResult ==
    \A j \in 1..Len(calls) : \A k \in 1..Len(calls) :
        (/\ j < k
         /\ calls[j].op = "add_line" /\ calls[j].done
         /\ calls[k].op = "add_line" /\ calls[k].done
         /\ calls[j].pre = calls[k].pre
         /\ calls[j].line = calls[k].line) =>
            /\ calls[j].results = calls[k].results
            /\ calls[j].post = calls[k].post

C24_HeldAfterOverflow ==
    \A k \in 2..Len(calls) :
        (/\ Overflowed(calls[k - 1])
         /\ calls[k - 1].post # <<>>
         /\ LoopCall(calls[k])
         /\ Parses(calls[k].line)
         /\ Len(calls[k].pre) + 1 < max_lines) =>
            /\ calls[k].results = <<Incomplete(Append(calls[k].pre, calls[k].line))>>
            /\ calls[k].post = Append(calls[k].pre, calls[k].line)

C24_StateNotPersisted ==
    C24_StartsAccumulating /\ C24_SameInputSameResult /\ C24_HeldAfterOverflow

\* a line that parses by itself was pushed onto the line an overflowing call
\* had left, and was held
C24_Witness ==
    /\ pc = "idle"
    /\ Len(calls) >= 2
    /\ Overflowed(calls[Len(calls) - 1])
    /\ LoopCall(LastCall)
    /\ LastCall.pre # <<>>
    /\ Parses(LastCall.line)
    /\ results = <<Incomplete(buffer)>>
    /\ buffer = Append(LastCall.pre, LastCall.line)

\* C25: drain never waits.  Every iteration of drain on a buffer of which no
\* prefix parses pushes the Text of the first line and removes that line,
\* whether or not the line is JSON-like; otherwise it pushes the Json of the
\* shortest parsing prefix and removes it.  So a drain of a buffer in which
\* no run of consecutive lines parses returns the Text of every line, in
\* buffer order.
C25_Step ==
    (pc = "drain" /\ buffer # <<>>) =>
        IF ParsingPrefixes(buffer) = {}
        THEN /\ results' = Append(results, Text(buffer[1]))
             /\ buffer' = Tail(buffer)
        ELSE /\ Len(buffer) - Len(buffer') \in ParsingPrefixes(buffer)
             /\ \A e \in ParsingPrefixes(buffer) : Len(buffer) - Len(buffer') <= e
             /\ buffer' = SubSeq(buffer, Len(buffer) - Len(buffer') + 1, Len(buffer))
             /\ results' = Append(results,
                   Json(JsonValue(Join(SubSeq(buffer, 1, Len(buffer) - Len(buffer'))))))

NoValueIn(buf) ==
    \A i \in 1..Len(buf) : \A j \in i..Len(buf) : ~Parses(Join(SubSeq(buf, i, j)))

C25_RawLines ==
    \A k \in 1..Len(calls) :
        (calls[k].op = "drain" /\ calls[k].done /\ NoValueIn(calls[k].pre)) =>
            calls[k].results = [i \in 1..Len(calls[k].pre) |-> Text(calls[k].pre[i])]

C25_FlushNeverWaits == []C25_RawLines /\ [][C25_Step]_vars

\* drain has returned three lines of an object that was never closed, each as
\* Text, the first two of them JSON-like
C25_Witness ==
    /\ pc = "idle"
    /\ calls # <<>>
    /\ LastCall.op = "drain"
    /\ LastCall.done
    /\ Len(LastCall.pre) = 3
    /\ could_be_json_start(LastCall.pre[1])
    /\ could_be_json_start(LastCall.pre[2])
    /\ results = <<Text(LastCall.pre[1]), Text(LastCall.pre[2]), Text(LastCall.pre[3])>>

\* C26: add_line called while the buffer is non-empty always appends the line
\* and enters the loop, also when the line is not JSON-like (plain text,
\* empty, whitespace only): the call itself emits nothing.  While the loop
\* runs and when it has returned, the buffer is a suffix of the old contents
\* followed by the new line, so the new line is emitted only after every older
\* line, and below capacity a line that does not complete a value is held in
\* the Incomplete.
IsSuffix(p, s) ==
    Len(p) <= Len(s) /\ SubSeq(s, Len(s) - Len(p) + 1, Len(s)) = p

C26_Step ==
    (/\ pc = "idle"
     /\ buffer # <<>>
     /\ Len(calls') = Len(calls) + 1
     /\ calls'[Len(calls')].op = "add_line") =>
        /\ buffer' = Append(buffer, calls'[Len(calls')].line)
        /\ pc' = "add_line"
        /\ results' = <<>>
        /\ log' = log
        /\ ~calls'[Len(calls')].done

C26_Order ==
    /\ pc = "add_line" =>
          IsSuffix(buffer, Append(LastCall.pre, LastCall.line))
    /\ \A k \in 1..Len(calls) :
          (LoopCall(calls[k]) /\ calls[k].pre # <<>>) =>
              /\ IsSuffix(calls[k].post, Append(calls[k].pre, calls[k].line))
              /\ (/\ ~could_be_json_start(calls[k].line)
                  /\ Len(calls[k].pre) + 1 < max_lines
                  /\ ~Parses(Join(Append(calls[k].pre, calls[k].line)))) =>
                     calls[k].results =
                         <<Incomplete(Append(calls[k].pre, calls[k].line))>>

C26_AlwaysAppended == []C26_Order /\ [][C26_Step]_vars

\* an empty line and then a line of whitespace only were submitted behind a
\* buffered line, and both are held
C26_Witness ==
    /\ pc = "idle"
    /\ calls # <<>>
    /\ LoopCall(LastCall)
    /\ LastCall.line = LBlank
    /\ Len(buffer) = 3
    /\ buffer[2] = LEmpty
    /\ buffer[3] = LBlank
    /\ results = <<Incomplete(buffer)>>

\* C27: could_be_json_start(line) is false when the line holds nothing but
\* whitespace, and otherwise true exactly when the text from the first
\* character that is not whitespace on starts with '"', '{', '[', with true,
\* false or null, with an ASCII digit or with '-'.  So lines that start with
\* '+', with '.', with NaN or with Infinity are not JSON-like.  The quick
\* shortcut of add_line on an empty buffer is taken exactly for the lines
\* that are not JSON-like in this sense.
C27_Literal(line, i, lit) ==
    i + Len(lit) - 1 <= Len(line) /\ SubSeq(line, i, i + Len(lit) - 1) = lit

C27_JsonLike(line) ==
    \E i \in 1..Len(line) :
        /\ line[i] \notin {" ", "\t", "\n", "\r", "\f"}
        /\ \A j \in 1..(i - 1) : line[j] \in {" ", "\t", "\n", "\r", "\f"}
        /\ \/ line[i] \in {"\"", "{", "[", "-",
                           "0", "1", "2", "3", "4", "5", "6", "7", "8", "9"}
           \/ C27_Literal(line, i, <<"t", "r", "u", "e">>)
           \/ C27_Literal(line, i, <<"f", "a", "l", "s", "e">>)
           \/ C27_Literal(line, i, <<"n", "u", "l", "l">>)

C27_Heuristic ==
    calls # <<>> =>
        /\ could_be_json_start(calls[1].line) <=> C27_JsonLike(calls[1].line)
        /\ Len(calls) = 1 =>
              (~C27_JsonLike(calls[1].line) <=>
                  /\ calls[1].done
                  /\ iterations = 0
                  /\ results = <<Text(calls[1].line)>>
                  /\ buffer = <<>>)
        /\ calls[1].line \in
              {l \o h \o r : l \in Leads, r \in Rests,
                             h \in {<<"+">>, <<".">>, <<"N", "a", "N">>,
                                    <<"I", "n", "f", "i", "n", "i", "t", "y">>}}
              => ~could_be_json_start(calls[1].line)

\* a line that starts, after whitespace, with '+' followed by a digit was
\* passed through as Text by the quick shortcut
C27_Witness ==
    /\ Len(calls) = 1
    /\ calls[1].line = <<" ", "+", "1">>
    /\ calls[1].done
    /\ iterations = 0
    /\ results = <<Text(calls[1].line)>>

\* C28: bounded waiting.  With capacity at least 1, the line received by an
\* add_line call has been emitted (taken by a Json or Text record) when
\* capacity - 1 later add_line calls have returned, and when a later drain
\* has returned.
EmittedLines == Len(TakenBy(log, Len(log)))

SubmitIndex(k) == Len(SubmittedIn(SubSeq(calls, 1, k)))

FollowingReturned(k) ==
    Cardinality({j \in (k + 1)..Len(calls) :
                     calls[j].op = "add_line" /\ calls[j].done})

C28_BoundedWaiting ==
    max_lines >= 1 =>
        \A k \in 1..Len(calls) :
            (calls[k].op = "add_line" /\ calls[k].done) =>
                /\ FollowingReturned(k) >= max_lines - 1 =>
                      EmittedLines >= SubmitIndex(k)
                /\ (\E j \in (k + 1)..Len(calls) :
                        calls[j].op = "drain" /\ calls[j].done) =>
                      EmittedLines >= SubmitIndex(k)

\* the bound is reached: the first line was still the head of the buffer
\* when capacity - 2 later calls had returned, and the call after them
\* evicted it
C28_Witness ==
    /\ pc = "idle"
    /\ max_lines >= 3
    /\ Len(calls) = max_lines
    /\ \A k \in 1..Len(calls) : LoopCall(calls[k])
    /\ calls[Len(calls) - 1].post # <<>>
    /\ calls[Len(calls) - 1].post[1] = calls[1].line
    /\ EmittedLines >= SubmitIndex(1)
    /\ results[1] = Text(calls[1].line)
    /\ FollowingReturned(1) = max_lines - 1

\* C29 as claimed: the parse attempts of one add_line call are linear in the
\* capacity: the parse of the whole buffer and one forward scan, which tries
\* at most one prefix per buffered line.
C29_Linear_AsClaimed ==
    (max_lines >= 1 /\ calls # <<>> /\ LastCall.op = "add_line") =>
        parses <= 1 + max_lines

\* C29 (amended): an Accumulating iteration makes one parse attempt and a
\* Draining iteration one per prefix up to the shortest parsing one (one per
\* buffered line when none parses), and Draining scans again after every
\* record.  So a call that pushed the line onto n - 1 buffered lines makes at
\* most 1 + n(n-1)/2 attempts, n being at most the capacity: quadratic in the
\* capacity, not linear.
C29_Step ==
    pc = "add_line" =>
        parses' - parses =
            IF state = "Accumulating" THEN 1
            ELSE IF ParsingPrefixes(buffer) = {} THEN Len(buffer)
            ELSE Len(buffer) - Len(buffer')

C29_Bound ==
    (max_lines >= 1 /\ calls # <<>> /\ LastCall.op = "add_line") =>
        /\ Len(LastCall.pre) + 1 <= max_lines
        /\ parses <= 1 + (Len(LastCall.pre) * (Len(LastCall.pre) + 1)) \div 2
        /\ parses <= 1 + (max_lines * (max_lines - 1)) \div 2

C29_ParseAttempts == []C29_Bound /\ [][C29_Step]_vars

\* the quadratic bound is reached, and it exceeds capacity + 1: after the
\* eviction every Draining iteration scanned all the lines left and gave up
\* one
C29_Witness ==
    /\ pc = "idle"
    /\ calls # <<>>
    /\ LastCall.op = "add_line"
    /\ LastCall.done
    /\ max_lines >= 4
    /\ parses = 1 + (max_lines * (max_lines - 1)) \div 2
    /\ parses > 1 + max_lines
    /\ iterations = max_lines

\* C30 as claimed: no line passed to add_line by process ends with "\n" or
\* with "\r".
C30_Stripped_AsClaimed ==
    \A i \in 1..Len(Submitted) :
        Submitted[i] = <<>> \/
            Submitted[i][Len(Submitted[i])] \notin {"\n", "\r"}

\* C30 (amended): process passes every line read to add_line without its line
\* terminator: one trailing "\n" and, when there is one, the "\r" right
\* before it.  No line passed ends with "\n".  A line passed ends with "\r"
\* exactly when the line read ended in "\r\r\n" (one "\r" of several is
\* removed) or was a last line without "\n" that ended in "\r" (nothing is
\* removed).
C30_Terminator(raw) ==
    IF Len(raw) >= 2 /\ raw[Len(raw)] = "\n" /\ raw[Len(raw) - 1] = "\r" THEN 2
    ELSE IF Len(raw) >= 1 /\ raw[Len(raw)] = "\n" THEN 1
    ELSE 0

C30_EndsInCr(s) == Len(s) >= 1 /\ s[Len(s)] = "\r"

C30_Stripped ==
    /\ Len(Submitted) = Len(input)
    /\ \A i \in 1..Len(input) :
          /\ Submitted[i] =
                SubSeq(input[i], 1, Len(input[i]) - C30_Terminator(input[i]))
          /\ Submitted[i] = <<>> \/ Submitted[i][Len(Submitted[i])] # "\n"
          /\ C30_EndsInCr(Submitted[i]) <=>
                \/ C30_Terminator(input[i]) = 0 /\ C30_EndsInCr(input[i])
                \/ /\ C30_Terminator(input[i]) = 2
                   /\ Len(input[i]) >= 3
                   /\ input[i][Len(input[i]) - 2] = "\r"

\* a line that ended in "\r\r\n" and a last line "a\r" without newline have
\* both been passed to add_line as "a\r"
C30_Witness ==
    /\ Len(input) = 2
    /\ input[1] = <<"a", "\r", "\r", "\n">>
    /\ input[2] = <<"a", "\r">>
    /\ Submitted = << <<"a", "\r">>, <<"a", "\r">> >>
    /\ pc = "idle"

\* C31: the filter built by from_args lets a record x through exactly when
\* invert_match differs from (json_only ? x is Json and base(x) : base(x)),
\* base(x) being "the pattern occurs in x" and true without a pattern.  So
\* the records written are the Json/Text records handled so far that satisfy
\* this; with invert_match and no pattern (and no json_only) nothing is
\* written, and with json_only and invert_match every Text record is written.
C31_Base(args, x) ==
    args.pattern = <<>> \/
        \E i \in 1..Len(x.value) : \E j \in i..Len(x.value) :
            LET w == SubSeq(x.value, i, j)
            IN  /\ Len(w) = Len(args.pattern[1])
                /\ \A k \in 1..Len(w) :
                      \/ w[k] = args.pattern[1][k]
                      \/ /\ ~args.case_sensitive
                         /\ to_lowercase(w[k]) = to_lowercase(args.pattern[1][k])

C31_Inner(args, x) ==
    IF args.json_only THEN x.kind = "Json" /\ C31_Base(args, x) ELSE C31_Base(args, x)

C31_Passes(args, x) == args.invert_match # C31_Inner(args, x)

C31_Selected(rs, args) ==
    SelectSeq(OutputOf(rs), LAMBDA x : C31_Passes(args, x))

C32_AtRestBound ==
    /\ max_lines >= 1 =>
          /\ Len(buffer) <= max_lines
          /\ pc \in {"idle", "drain"} => Len(buffer) <= max_lines - 1
          /\ \A k \in 1..Len(calls) :
                calls[k].done => Len(calls[k].post) <= max_lines - 1
    /\ max_lines <= 1 =>
          /\ pc \in {"idle", "drain"} => buffer = <<>>
          /\ \A i \in 1..Len(results) : results[i].kind # "Incomplete"
          /\ \A k \in 1..Len(calls) :
                /\ calls[k].post = <<>>
                /\ \A i \in 1..Len(calls[k].results) :
                      calls[k].results[i].kind # "Incomplete"

\* the bound is reached: an overflowing call has returned leaving capacity - 1
\* lines, capacity at least 3
C32_Witness ==
    /\ pc = "idle"
    /\ max_lines >= 3
    /\ calls # <<>>
    /\ Overflowed(LastCall)
    /\ Len(buffer) = max_lines - 1
    /\ results[Len(results)] = Incomplete(buffer)

\* C33: between calls a non-empty buffer starts with a JSON-like line and none
\* of its prefixes (the first k lines joined by newlines, k from 1 to its
\* length) parses as JSON.  The same holds for the buffer every call has left.
C33_NoPrefixParses(buf) ==
    \A k \in 1..Len(buf) : ~Parses(Join(SubSeq(buf, 1, k)))

C33_AtRest ==
    /\ (pc = "idle" /\ buffer # <<>>) =>
          /\ could_be_json_start(buffer[1])
          /\ C33_NoPrefixParses(buffer)
    /\ \A c \in 1..Len(calls) :
          (calls[c].done /\ calls[c].post # <<>>) =>
              /\ could_be_json_start(calls[c].post[1])
              /\ C33_NoPrefixParses(calls[c].post)

\* at rest with three lines of which the last parses by itself and the second
\* is not JSON-like
C33_Witness ==
    /\ pc = "idle"
    /\ Len(buffer) = 3
    /\ ~could_be_json_start(buffer[2])
    /\ Parses(buffer[3])
    /\ could_be_json_start(buffer[1])

\* C34: with capacity at least 1, every Json record pushed by add_line or
\* drain is the value of at most capacity lines, which are consecutive lines
\* of the input.  So the three lines of an object submitted with capacity 2
\* are never returned as one Json.
C34_Consecutive(i) ==
    log[i].src =
        SubSeq(Submitted, Len(TakenBy(log, i - 1)) + 1,
                          Len(TakenBy(log, i - 1)) + Len(log[i].src))

C34_JsonSpan ==
    max_lines >= 1 =>
        \A i \in 1..Len(log) :
            log[i].kind = "Json" =>
                /\ Len(log[i].src) >= 1
                /\ Len(log[i].src) <= max_lines
                /\ log[i].value = JsonValue(Join(log[i].src))
                /\ C34_Consecutive(i)

\* the three lines of an object, submitted with capacity 2, have all been
\* returned as Text
C34_Witness ==
    /\ max_lines = 2
    /\ pc = "idle"
    /\ Submitted = <<LOpen, LKey, LClose>>
    /\ Parses(Join(Submitted))
    /\ Len(log) = 3
    /\ \A i \in 1..3 : log[i].kind = "Text"
    /\ buffer = <<>>

\* C35: when every line submitted so far either is not JSON-like or parses by
\* itself, every add_line call has returned exactly one record for its line
\* (Json of the line when it parses, else Text of it) and left the buffer
\* empty, every drain has returned nothing, and none of this depends on the
\* capacity.
LineDelimited(line) == ~could_be_json_start(line) \/ Parses(line)

C35_Record(line) == IF Parses(line) THEN Json(JsonValue(line)) ELSE Text(line)

C35_CapacityIndependent ==
    (\A k \in 1..Len(calls) :
         calls[k].op = "add_line" => LineDelimited(calls[k].line)) =>
        /\ pc = "idle" => buffer = <<>>
        /\ \A k \in 1..Len(calls) :
              calls[k].done =>
                  /\ calls[k].pre = <<>>
                  /\ calls[k].post = <<>>
                  /\ calls[k].results =
                        IF calls[k].op = "add_line"
                        THEN <<C35_Record(calls[k].line)>>
                        ELSE <<>>

\* three line-delimited lines, one of them a JSON value, and then drain, with
\* the smallest capacity that is not 0
C35_Witness ==
    /\ max_lines = 1
    /\ pc = "idle"
    /\ Len(calls) = 4
    /\ \A k \in 1..3 : calls[k].op = "add_line" /\ LineDelimited(calls[k].line)
    /\ calls[2].results = <<Json(JsonValue(calls[2].line))>>
    /\ calls[3].results = <<Text(calls[3].line)>>
    /\ calls[4].op = "drain"
    /\ calls[4].done
    /\ results = <<>>

\* C36: filtering does not influence classification.  Writing or suppressing
\* records changes nothing in the classifier (its buffer, state, results,
\* history); the records the calls of process have returned are those of
\* add_line and drain computed from the lines read and the capacity alone,
\* whatever the filter arguments are; and the output is a prefix of these
\* records restricted to the Json/Text records the filter matches, all of
\* them when process returns Ok.
C36_StepOf(buf, st, cap) ==
    IF st = "Accumulating" THEN Accumulating(buf, cap) ELSE Draining(buf)

\* the loop of add_line from the iteration s just run
RECURSIVE C36_Loop(_, _, _)
C36_Loop(s, res, cap) ==
    IF s.stable \/ s.buffer = <<>>
    THEN [results |-> Final(res, s), buffer |-> s.buffer]
    ELSE C36_Loop(C36_StepOf(s.buffer, s.state, cap), Pushed(res, s), cap)

C36_AddLine(buf, line, cap) ==
    IF buf = <<>> /\ ~could_be_json_start(line)
    THEN [results |-> <<Text(line)>>, buffer |-> buf]
    ELSE C36_Loop(C36_StepOf(Append(buf, line), "Accumulating", cap), <<>>, cap)

RECURSIVE C36_Drain(_, _)
C36_Drain(buf, res) ==
    IF buf = <<>> THEN res
    ELSE C36_Drain(DrainIteration(buf).buffer, Append(res, DrainIteration(buf).rec))

\* the records of the first n lines, and the buffer after them
RECURSIVE C36_Run(_, _, _)
C36_Run(lines, n, cap) ==
    IF n = 0 THEN [records |-> <<>>, buffer |-> <<>>]
    ELSE [records |-> C36_Run(lines, n - 1, cap).records \o
                      C36_AddLine(C36_Run(lines, n - 1, cap).buffer,
                                  lines[n], cap).results,
          buffer  |-> C36_AddLine(C36_Run(lines, n - 1, cap).buffer,
                                  lines[n], cap).buffer]

C36_Returned ==
    Cardinality({k \in 1..Len(calls) : calls[k].op = "add_line" /\ calls[k].done})

C36_Classified ==
    /\ AllResults(calls) =
          C36_Run(StrippedInput, C36_Returned, max_lines).records \o
          (IF \E k \in 1..Len(calls) : calls[k].op = "drain" /\ calls[k].done
           THEN C36_Drain(C36_Run(StrippedInput, C36_Returned, max_lines).buffer, <<>>)
           ELSE <<>>)
    /\ IsPrefix(writer, handle_results(AllResults(calls), from_args(filter)))
    /\ ppc = "done" =>
          writer = handle_results(AllResults(calls), from_args(filter))

C36_Frame ==
    (pc = "idle" /\ ppc \in {"handle", "handle_drain"}) =>
        UNCHANGED <<max_lines, buffer, state, results, calls, log>>

C36_FilterIndependent == []C36_Classified /\ [][C36_Frame]_vars

\* process has returned Ok with a filter that suppressed a record although
\* lines were held over from one call to the next
C36_Witness ==
    /\ ppc = "done"
    /\ Len(calls) >= 3
    /\ calls[2].pre # <<>>
    /\ calls[1].results = <<Incomplete(calls[2].pre)>>
    /\ Len(writer) < Len(OutputOf(AllResults(calls)))
    /\ writer # <<>>

\* the guard of the third Accumulating branch holds: the next iteration takes
\* the 'single non-JSON line' step
C37_StepEnabled ==
    /\ pc = "add_line"
    /\ state = "Accumulating"
    /\ ~try_parse_buffer_segments(buffer)
    /\ Len(buffer) < max_lines
    /\ Len(buffer) = 1
    /\ ~could_be_json_start(buffer[1])

\* C37 as claimed: the 'single non-JSON line' step is what emits a lone line
\* that is not JSON-like: an add_line call that was given such a line on an
\* empty buffer, with room for more than one line, has run one iteration of
\* the loop, which made one parse attempt and pushed the Text.
C37_StepTaken_AsClaimed ==
    (/\ pc = "idle"
     /\ calls # <<>>
     /\ LastCall.op = "add_line"
     /\ LastCall.done
     /\ LastCall.pre = <<>>
     /\ ~could_be_json_start(LastCall.line)
     /\ max_lines >= 2) =>
        /\ iterations = 1
        /\ parses = 1
        /\ results = <<Text(LastCall.line)>>

\* C37 (amended): the 'single non-JSON line' step is never taken.  The
\* Accumulating arm runs only as the first iteration of a call, on the buffer
\* as it is right after the push, and a buffer of one line that is not
\* JSON-like never gets there: the quick shortcut has returned that line
\* before the push, with no iteration and no parse attempt.
C37_StepNeverTaken ==
    /\ ~C37_StepEnabled
    /\ (pc = "add_line" /\ state = "Accumulating") =>
          /\ iterations = 0
          /\ buffer = Append(LastCall.pre, LastCall.line)
          /\ Len(buffer) = 1 => could_be_json_start(buffer[1])
    /\ (/\ calls # <<>>
        /\ LastCall.op = "add_line"
        /\ LastCall.pre = <<>>
        /\ ~could_be_json_start(LastCall.line)) =>
          (iterations = 0 /\ parses = 0 /\ pc = "idle")

\* after a call that emptied the buffer in Draining, a line that is not
\* JSON-like was submitted with room for more than one line, and was returned
\* without an iteration of the loop
C37_Witness ==
    /\ pc = "idle"
    /\ max_lines >= 2
    /\ Len(calls) >= 2
    /\ Overflowed(calls[Len(calls) - 1])
    /\ LastCall.op = "add_line"
    /\ LastCall.done
    /\ LastCall.pre = <<>>
    /\ ~could_be_json_start(LastCall.line)
    /\ results = <<Text(LastCall.line)>>
    /\ iterations = 0
    /\ state = "Draining"

\* C38: where a Draining iteration makes no progress, an Accumulating
\* iteration run on the same buffer would make none either: the whole buffer
\* does not parse, its length is below the capacity, and it is not a single
\* line that is not JSON-like.  So a loop that went on in Accumulating instead
\* of ending would end one iteration later with the same records and the same
\* buffer.
C38_NoProgress ==
    /\ pc = "add_line"
    /\ state = "Draining"
    /\ Draining(buffer).stable

C38_Equivalent ==
    C38_NoProgress =>
        /\ ~try_parse_buffer_segments(buffer)
        /\ Len(buffer) < max_lines
        /\ ~(Len(buffer) = 1 /\ ~could_be_json_start(buffer[1]))
        /\ Accumulating(buffer, max_lines).stable
        /\ Accumulating(buffer, max_lines).buffer = Draining(buffer).buffer
        /\ Final(results, Accumulating(buffer, max_lines)) =
               Final(results, Draining(buffer))

\* the ending as the code has it agrees with what the formula predicts: the
\* call returns the records so far and the Incomplete of the same buffer
C38_Step ==
    C38_NoProgress =>
        /\ pc' = "idle"
        /\ buffer' = Accumulating(buffer, max_lines).buffer
        /\ results' = Final(results, Accumulating(buffer, max_lines))

C38_EarlyExit == []C38_Equivalent /\ [][C38_Step]_vars

\* a Draining iteration is about to make no progress on a buffer of one line
\* less than the capacity
C38_Witness ==
    /\ C38_NoProgress
    /\ max_lines >= 3
    /\ Len(buffer) = max_lines - 1
    /\ Len(results) >= 1

====
